---- MODULE Spec2Model ----
(***************************************************************************)
(* A model of the pseudocode interpreter (pseuCompiler): the tree-walking  *)
(* evaluator of src/src/interpreter.rs and src/src/wasm_interpreter.rs and *)
(* the embedded engine of src/src/lib.rs that drives it.                   *)
(*                                                                         *)
(* The interpreter state is carried through the evaluator as one record    *)
(* (`st`), the evaluator is a family of recursive operators that follow    *)
(* evaluate_stmt / evaluate_expr arm by arm, and every engine entry point  *)
(* is one action.  Strings that the program inspects (file contents,       *)
(* string values, output) are sequences of one-character strings; names    *)
(* (variables, files, functions) are atoms.                                *)
(***************************************************************************)
EXTENDS Integers, Sequences, FiniteSets, TLC

VARIABLES
    variables,                \* WasmInterpreter.variables : name -> Value
    variables_type,           \* WasmInterpreter.variables_type : name -> Type
    functions,                \* WasmInterpreter.functions
    procedures,               \* WasmInterpreter.procedures
    constants,                \* WasmInterpreter.constants
    open_files,               \* WasmInterpreter.open_files : name -> VirtualFileHandle
    virtual_files,            \* WasmInterpreter.virtual_files : name -> content
    output_buffer,            \* WasmInterpreter.output_buffer
    input_queue,              \* WasmInterpreter.input_queue
    call_stack,               \* WasmInterpreter.call_stack
    context_stack,            \* WasmInterpreter.context_stack
    parsed_statements,        \* PseudocodeEngine.parsed_statements
    current_statement_index,  \* PseudocodeEngine.current_statement_index
    last                      \* history: the last engine call and what it returned

vars == << variables, variables_type, functions, procedures, constants,
           open_files, virtual_files, output_buffer, input_queue,
           call_stack, context_stack, parsed_statements,
           current_statement_index, last >>

-----------------------------------------------------------------------------
(* Bounds of the model                                                      *)

\* longest content a virtual file handle may reach before writes are cut off
MaxContent == 4
\* most engine calls in one behaviour
MaxCalls == 2
\* most engine calls in one behaviour of the array programs
MaxArrayCalls == 1
\* largest lower bound and largest hi - lo of the one-dimensional arrays
MaxLo == 1
MaxSpan == 2
\* the two-dimensional array is ARRAY[1:MaxRow, 1:MaxCol]
MaxRow == 2
MaxCol == 3
\* most engine calls in one behaviour of the record programs
MaxRecordCalls == 2
\* most engine calls in one behaviour of the input programs
MaxInputCalls == 3
\* most engine calls in one behaviour of the loop programs
MaxLoopCalls == 1
\* the FOR loops start and end in 0..MaxEnd
MaxEnd == 3
\* most engine calls in one behaviour of the CASE programs
MaxCaseCalls == 1
\* most branches of a CASE statement, OTHERWISE not counted
MaxBranches == 2
\* most engine calls in one behaviour of the pointer programs
MaxPointerCalls == 1
\* the pointer programs assign the integers 0..MaxPointee
MaxPointee == 4
\* most binary operators in one parsed expression
MaxOperators == 3
\* most engine calls in one behaviour of the block programs
MaxBlockCalls == 1
\* longest source text handed to the lexer
MaxSource == 4
\* deepest nesting of a declaration handed to the service
MaxNest == 2
\* last line and last column of the cursor
MaxLine == 2
MaxColumn == 4
\* most engine calls in one behaviour of the handle programs
MaxHandleCalls == 2
\* most engine calls in one behaviour of the constant programs
MaxConstantCalls == 2
\* most engine calls in one behaviour of the stepping programs
MaxStepCalls == 2
\* most host calls before the first run of the repeated programs
MaxRepeatCalls == 3
\* most engine calls in one behaviour of the position programs
MaxPositionCalls == 6

-----------------------------------------------------------------------------
(* Finite maps (HashMap) and small helpers                                  *)

EmptyMap == << >>

Insert(m, k, v) == (k :> v) @@ m

Remove(m, k) == [x \in (DOMAIN m) \ {k} |-> m[x]]

Min2(a, b) == IF a <= b THEN a ELSE b

\* i32 arithmetic as the release build computes it (two's complement wrap),
\* written so that no intermediate result leaves the 32-bit range
I32Max == 2147483647

I32Min == -2147483647 - 1

AddI32(a, b) ==
    IF b > 0 /\ a > I32Max - b THEN (a + I32Min) + (b + I32Min)
    ELSE IF b < 0 /\ a < I32Min - b THEN (a - I32Min) + (b - I32Min)
    ELSE a + b

SubI32(a, b) ==
    IF b < 0 /\ a > I32Max + b THEN (a + I32Min) - (b - I32Min)
    ELSE IF b > 0 /\ a < I32Min + b THEN (a - I32Min) - (b + I32Min)
    ELSE a - b

NegI32(a) == IF a = I32Min THEN I32Min ELSE -a

\* usize of the 32-bit target, as two 16-bit halves: hi * 65536 + lo
Usize(n) == [hi |-> n \div 65536, lo |-> n % 65536]

\* x * y modulo 65536, for x and y below 65536
MulHalf(x, y) == ((((x \div 256) * y) % 65536) * 256 + (x % 256) * y) % 65536

\* what x * y carries over 65536, for x and y below 65536
MulCarry(x, y) ==
    ((x \div 256) * y) \div 256
        + ((((x \div 256) * y) % 256) * 256 + (x % 256) * y) \div 65536

\* `a *= size` on usize as the release build computes it: the product
\* modulo 2^32; size is below 2^31
MulUsize(a, size) ==
    [hi |-> (MulCarry(a.lo, size % 65536) + MulHalf(a.hi, size % 65536)
                + MulHalf(a.lo, size \div 65536)) % 65536,
     lo |-> MulHalf(a.lo, size % 65536)]

-----------------------------------------------------------------------------
(* The value universe (enum Value) and the types (enum Type)                *)

IntV(n) == [k |-> "Integer", i |-> n]

StrV(s) == [k |-> "String", s |-> s]

BoolV(b) == [k |-> "Boolean", b |-> b]

CharV(c) == [k |-> "Char", c |-> c]

PtrV(points_to, target) == [k |-> "Pointer", points_to |-> points_to, target |-> target]

ArrV(et, dims, starts, data) ==
    [k |-> "Array", element_type |-> et, dimensions |-> dims,
     start_indices |-> starts, data |-> data]

TInteger == [t |-> "INTEGER"]

TString == [t |-> "STRING"]

TBoolean == [t |-> "BOOLEAN"]

TChar == [t |-> "CHAR"]

TArray(dims, et) == [t |-> "ARRAY", dimensions |-> dims, element_type |-> et]

\* results of the evaluator: Result<Value, String> and Result<(), String>,
\* both together with the interpreter state the call leaves behind
OkV(st, v) == [ok |-> TRUE, v |-> v, msg |-> "", st |-> st]

ErrV(st, m) == [ok |-> FALSE, v |-> IntV(0), msg |-> m, st |-> st]

OkS(st) == [ok |-> TRUE, msg |-> "", st |-> st]

ErrS(st, m) == [ok |-> FALSE, msg |-> m, st |-> st]

-----------------------------------------------------------------------------
(* Stringification (value_to_string)                                        *)

Digits == << "0", "1", "2", "3", "4", "5", "6", "7", "8", "9" >>

RECURSIVE NatToString(_)
NatToString(n) ==
    IF n < 10 THEN << Digits[n + 1] >>
    ELSE NatToString(n \div 10) \o << Digits[(n % 10) + 1] >>

IntToString(n) == IF n < 0 THEN << "-" >> \o NatToString(-n) ELSE NatToString(n)

RECURSIVE Product(_, _)
Product(seq, from) ==
    IF from > Len(seq) THEN 1 ELSE seq[from] * Product(seq, from + 1)

RECURSIVE value_to_string(_), format_array_with_dimensions(_, _, _), FormatLoop(_, _, _, _), JoinValues(_, _)
\* dim_index is 1-based here (the source counts from 0)
format_array_with_dimensions(data, dimensions, dim_index) ==
    IF dimensions = << >> \/ data = << >> THEN << "[", "]" >>
    ELSE << "[" >> \o FormatLoop(data, dimensions, dim_index, 0) \o << "]" >>

\* the `for i in 0..current_dim` loop of format_array_with_dimensions
FormatLoop(data, dimensions, dim_index, i) ==
    LET current_dim      == dimensions[dim_index]
        last_dim         == dim_index = Len(dimensions)
        elements_per_sub == IF last_dim THEN 1 ELSE Product(dimensions, dim_index + 1)
        start_idx        == i * elements_per_sub
        end_idx          == Min2((i + 1) * elements_per_sub, Len(data))
        slice            == SubSeq(data, start_idx + 1, end_idx)
    IN  IF i >= current_dim \/ start_idx >= Len(data) THEN << >>
        ELSE (IF last_dim THEN JoinValues(slice, 1)
              ELSE format_array_with_dimensions(slice, dimensions, dim_index + 1))
             \o (IF i < current_dim - 1 THEN << ",", " " >> ELSE << >>)
             \o FormatLoop(data, dimensions, dim_index, i + 1)

JoinValues(slice, i) ==
    IF i > Len(slice) THEN << >>
    ELSE (IF i > 1 THEN << ",", " " >> ELSE << >>)
         \o value_to_string(slice[i]) \o JoinValues(slice, i + 1)

value_to_string(v) ==
    CASE v.k = "Integer" -> IntToString(v.i)
      [] v.k = "String"  -> v.s
      [] v.k = "Char"    -> << v.c >>
      [] v.k = "Boolean" -> IF v.b THEN << "t", "r", "u", "e" >>
                                   ELSE << "f", "a", "l", "s", "e" >>
      [] v.k = "Array"   -> format_array_with_dimensions(v.data, v.dimensions, 1)

-----------------------------------------------------------------------------
(* default_value                                                            *)

default_value(ty) ==
    CASE ty.t = "INTEGER" -> [ok |-> TRUE, v |-> IntV(0)]
      [] ty.t = "BOOLEAN" -> [ok |-> TRUE, v |-> BoolV(FALSE)]
      [] ty.t = "CHAR"    -> [ok |-> TRUE, v |-> CharV("\\0")]
      [] ty.t = "STRING"  -> [ok |-> TRUE, v |-> StrV(<< >>)]
      [] OTHER            -> [ok |-> FALSE, v |-> IntV(0)]

-----------------------------------------------------------------------------
(* calculate_array_index: bounds check per dimension, then row-major offset *)

RECURSIVE FlatIndex(_, _, _, _, _)
\* the loop over indices.iter().zip(dimensions.iter()).rev()
FlatIndex(indices, dimensions, j, flat_index, stride) ==
    IF j = 0 THEN flat_index
    ELSE FlatIndex(indices, dimensions, j - 1,
                   flat_index + indices[j] * stride, stride * dimensions[j])

\* calculate_array_index without the bounds check per dimension
calculate_array_index_NoDimCheck(indices, dimensions) ==
    IF Len(indices) # Len(dimensions)
    THEN [ok |-> FALSE, idx |-> 0, msg |-> "Index dimension mismatch"]
    ELSE [ok |-> TRUE, msg |-> "",
          idx |-> FlatIndex(indices, dimensions, Len(indices), 0, 1)]

calculate_array_index(indices, dimensions) ==
    IF Len(indices) # Len(dimensions)
    THEN [ok |-> FALSE, idx |-> 0, msg |-> "Index dimension mismatch"]
    ELSE IF \E j \in 1..Len(indices) : indices[j] >= dimensions[j]
    THEN [ok |-> FALSE, idx |-> 0, msg |-> "Index out of bounds"]
    ELSE [ok |-> TRUE, msg |-> "",
          idx |-> FlatIndex(indices, dimensions, Len(indices), 0, 1)]

-----------------------------------------------------------------------------
(* evaluate_binary_op / evaluate_unary_op on integers, strings, booleans    *)

\* Rust's `/` and `%` on i32 truncate toward zero
TruncDiv(a, b) ==
    LET q == (IF a < 0 THEN -a ELSE a) \div (IF b < 0 THEN -b ELSE b)
    IN  IF (a < 0) # (b < 0) THEN -q ELSE q

TruncRem(a, b) == a - b * TruncDiv(a, b)

BothInt(l, r) == l.k = "Integer" /\ r.k = "Integer"

BothBool(l, r) == l.k = "Boolean" /\ r.k = "Boolean"

OkVal(v) == [ok |-> TRUE, v |-> v, msg |-> ""]

ErrVal(m) == [ok |-> FALSE, v |-> IntV(0), msg |-> m]

evaluate_binary_op(op, l, r) ==
    CASE op = "Add" ->
            IF BothInt(l, r) THEN OkVal(IntV(AddI32(l.i, r.i)))
            ELSE IF l.k = "String" /\ r.k = "String" THEN OkVal(StrV(l.s \o r.s))
            ELSE IF l.k = "String" /\ r.k = "Integer"
                 THEN OkVal(StrV(l.s \o IntToString(r.i)))
            ELSE IF l.k = "Integer" /\ r.k = "String"
                 THEN OkVal(StrV(IntToString(l.i) \o r.s))
            ELSE IF l.k = "Char" /\ r.k = "Char" THEN OkVal(StrV(<< l.c, r.c >>))
            ELSE ErrVal("Unsupported addition operation")
      [] op = "Subtract" ->
            IF BothInt(l, r) THEN OkVal(IntV(SubI32(l.i, r.i)))
            ELSE ErrVal("Unsupported subtraction operation")
      [] op = "Multiply" ->
            IF BothInt(l, r) THEN OkVal(IntV(l.i * r.i))
            ELSE ErrVal("Unsupported multiplication operation")
      [] op = "_Div" ->
            IF BothInt(l, r)
            THEN IF r.i = 0 THEN ErrVal("Division by zero in DIV")
                 ELSE OkVal(IntV(TruncDiv(l.i, r.i)))
            ELSE ErrVal("DIV requires integer operands")
      [] op = "Modulus" ->
            IF BothInt(l, r)
            THEN IF r.i = 0 THEN ErrVal("Modulo by zero")
                 ELSE OkVal(IntV(TruncRem(l.i, r.i)))
            ELSE ErrVal("Modulus requires integer operands")
      [] op = "Equals" ->
            IF l.k = r.k /\ l.k \in {"Integer", "String", "Char"}
            THEN OkVal(BoolV(l = r))
            ELSE ErrVal("Unsupported equality operation")
      [] op = "NotEquals" ->
            IF l.k = r.k /\ l.k \in {"Integer", "String", "Char"}
            THEN OkVal(BoolV(l # r))
            ELSE ErrVal("Unsupported not equals operation")
      [] op = "LessThan" ->
            IF BothInt(l, r) THEN OkVal(BoolV(l.i < r.i))
            ELSE ErrVal("Unsupported less than operation")
      [] op = "GreaterThan" ->
            IF BothInt(l, r) THEN OkVal(BoolV(l.i > r.i))
            ELSE ErrVal("Unsupported greater than operation")
      [] op = "LessThanOrEqual" ->
            IF BothInt(l, r) THEN OkVal(BoolV(l.i <= r.i))
            ELSE ErrVal("Unsupported less than or equal operation")
      [] op = "GreaterThanOrEqual" ->
            IF BothInt(l, r) THEN OkVal(BoolV(l.i >= r.i))
            ELSE ErrVal("Unsupported greater than or equal operation")
      [] op = "And" ->
            IF BothBool(l, r) THEN OkVal(BoolV(l.b /\ r.b))
            ELSE ErrVal("Unsupported AND operation")
      [] op = "Or" ->
            IF BothBool(l, r) THEN OkVal(BoolV(l.b \/ r.b))
            ELSE ErrVal("Unsupported OR operation")

\* the truthiness rule shared by IF, WHILE and REPEAT...UNTIL
Truthy(v) ==
    CASE v.k = "Boolean" -> [ok |-> TRUE, b |-> v.b]
      [] v.k = "Integer" -> [ok |-> TRUE, b |-> v.i # 0]
      [] v.k = "String"  -> [ok |-> TRUE, b |-> v.s # << >>]
      [] OTHER           -> [ok |-> FALSE, b |-> FALSE]

-----------------------------------------------------------------------------
(* Abstract syntax (ast.rs): constructors for Expr and Stmt.  An            *)
(* Option<Box<Expr>> is a sequence of length 0 or 1.                        *)

Num(n) == [e |-> "Number", n |-> n]

Str(s) == [e |-> "String", s |-> s]

Var(x) == [e |-> "Variable", name |-> x]

Bin(l, op, r) == [e |-> "BinaryOp", left |-> l, op |-> op, right |-> r]

Un(op, x) == [e |-> "UnaryOp", op |-> op, expr |-> x]

FunctionCall(name, args) == [e |-> "FunctionCall", name |-> name, args |-> args]

PointerRef(target) == [e |-> "PointerRef", target |-> target]

PointerDeref(pointer) == [e |-> "PointerDeref", pointer |-> pointer]

ArrayAccess(a, indices) == [e |-> "ArrayAccess", array |-> a, indices |-> indices]

Param(name, ty) == [name |-> name, type_name |-> ty]

Declare(name, ty) == [s |-> "Declare", name |-> name, type_name |-> ty, initial_value |-> << >>]

Constant(name, value) == [s |-> "Constant", name |-> name, value |-> value]

\* the parser writes `name^ <- e` as an Assign whose name ends in "^";
\* is_pointer_deref says so and name is the name before the "^"
Assign(name, e) == [s |-> "Assign", name |-> name, has_indices |-> FALSE,
                    indices |-> << >>, expression |-> e, is_pointer_deref |-> FALSE]

AssignAt(name, indices, e) == [s |-> "Assign", name |-> name, has_indices |-> TRUE,
                               indices |-> indices, expression |-> e,
                               is_pointer_deref |-> FALSE]

AssignDeref(name, e) == [s |-> "Assign", name |-> name, has_indices |-> FALSE,
                         indices |-> << >>, expression |-> e, is_pointer_deref |-> TRUE]

Output(exprs) == [s |-> "Output", exprs |-> exprs]

Input(name) == [s |-> "Input", name |-> name]

If(c, then_stmt, else_stmt) == [s |-> "If", condition |-> c, then_stmt |-> then_stmt,
                                has_else |-> TRUE, else_stmt |-> else_stmt]

IfThen(c, then_stmt) == [s |-> "If", condition |-> c, then_stmt |-> then_stmt,
                         has_else |-> FALSE, else_stmt |-> << >>]

For(counter, start, end, step, body) ==
    [s |-> "For", counter |-> counter, start |-> start, end |-> end,
     step |-> step, body |-> body]

While(condition, body) == [s |-> "While", condition |-> condition, body |-> body]

RepeatUntil(body, condition) ==
    [s |-> "RepeatUntil", body |-> body, condition |-> condition]

FunctionDeclaration(name, params, rt, body) ==
    [s |-> "FunctionDeclaration",
     function |-> [name |-> name, params |-> params, return_type |-> rt, body |-> body]]

ProcedureDeclaration(name, params, body) ==
    [s |-> "ProcedureDeclaration",
     procedure |-> [name |-> name, params |-> params, body |-> body]]

Call(name, args) == [s |-> "Call", name |-> name, args |-> args]

Return(value) == [s |-> "Return", value |-> value]

Break == [s |-> "Break"]

OpenFile(f, mode) == [s |-> "OpenFile", filename |-> f, mode |-> mode]

CloseFile(f) == [s |-> "CloseFile", filename |-> f]

WriteFile(f, exprs) == [s |-> "WriteFile", filename |-> f, exprs |-> exprs]

ReadFile(f, name) == [s |-> "ReadFile", filename |-> f, name |-> name]

CaseBranch(value, body) == [value |-> value, body |-> body]

Case(expression, cases, otherwise) ==
    [s |-> "Case", expression |-> expression, cases |-> cases, otherwise |-> otherwise]

Seek(f, address) == [s |-> "Seek", filename |-> f, address |-> address]

GetRecord(f, variable) == [s |-> "GetRecord", filename |-> f, variable |-> variable]

PutRecord(f, variable) == [s |-> "PutRecord", filename |-> f, variable |-> variable]

-----------------------------------------------------------------------------
(* The evaluator.  `st` is the interpreter: a record with the fields of     *)
(* WasmInterpreter plus `events`, a history of the calls and loops that     *)
(* completed while the current top-level statement ran.                     *)

RECURSIVE evaluate_expr(_, _), EvalList(_, _, _, _), evaluate_function_call(_, _, _),
          evaluate_builtin_function(_, _, _), FunctionBody(_, _, _),
          evaluate_stmt(_, _), ExecBlock(_, _, _), ForLoop(_, _, _, _, _),
          CaseLoop(_, _, _, _, _), WhileLoop(_, _), RepeatLoop(_, _)

Event(st, ev) == [st EXCEPT !.events = Append(@, ev)]

push_call(st, name, args) ==
    [st EXCEPT !.call_stack = Append(@, [name |-> name, args |-> args])]

\* Vec::pop: nothing happens on an empty stack
pop_call(st) ==
    [st EXCEPT !.call_stack = IF @ = << >> THEN @ ELSE SubSeq(@, 1, Len(@) - 1)]

push_context(st, context) == [st EXCEPT !.context_stack = Append(@, context)]

pop_context(st) ==
    [st EXCEPT !.context_stack = IF @ = << >> THEN @ ELSE SubSeq(@, 1, Len(@) - 1)]

\* user index -> 0-based position per dimension; an index below the
\* declared start, or one that is not an integer, is rejected
RECURSIVE TranslateIndices(_, _, _, _)
TranslateIndices(index_values, start_indices, j, acc) ==
    IF j > Len(index_values) \/ j > Len(start_indices)
    THEN [ok |-> TRUE, pos |-> acc, msg |-> ""]
    ELSE IF index_values[j].k # "Integer"
    THEN [ok |-> FALSE, pos |-> acc, msg |-> "Invalid index type"]
    ELSE IF index_values[j].i < start_indices[j]
    THEN [ok |-> FALSE, pos |-> acc, msg |-> "Index below start"]
    ELSE TranslateIndices(index_values, start_indices, j + 1,
                          Append(acc, index_values[j].i - start_indices[j]))

\* `let r = <value>?; ...`: the value is computed once and the rest of the
\* arm works on it
Bind(r, Rest(_)) == Rest(r)

\* exprs.iter().map(evaluate_expr).collect::<Result<_,_>>(): left to right,
\* stopping at the first error
EvalList(st, exprs, j, acc) ==
    IF j > Len(exprs) THEN [ok |-> TRUE, vs |-> acc, msg |-> "", st |-> st]
    ELSE Bind(evaluate_expr(st, exprs[j]), LAMBDA r :
         IF ~r.ok THEN [ok |-> FALSE, vs |-> acc, msg |-> r.msg, st |-> r.st]
         ELSE EvalList(r.st, exprs, j + 1, Append(acc, r.v)))

\* Expr::ArrayAccess once the indices are evaluated
ArrayRead(st, array, index_vals) ==
    IF array \notin DOMAIN st.variables THEN ErrV(st, "Variable not found")
    ELSE Bind(st.variables[array], LAMBDA array_val :
         IF array_val.k # "Array" THEN ErrV(st, "Indexed access on unsupported type")
         ELSE IF Len(index_vals) # Len(array_val.start_indices)
         THEN ErrV(st, "Index dimension mismatch")
         ELSE Bind(TranslateIndices(index_vals, array_val.start_indices, 1, << >>),
              LAMBDA t :
              IF ~t.ok THEN ErrV(st, t.msg)
              ELSE Bind(calculate_array_index(t.pos, array_val.dimensions), LAMBDA c :
                   IF ~c.ok THEN ErrV(st, c.msg)
                   ELSE IF c.idx >= Len(array_val.data)
                   THEN ErrV(st, "Array index out of bounds")
                   ELSE OkV(st, array_val.data[c.idx + 1]))))

evaluate_unary_op(st, op, expr) ==
    Bind(evaluate_expr(st, expr), LAMBDA r :
    IF ~r.ok THEN r
    ELSE IF op = "Negate"
         THEN IF r.v.k = "Integer" THEN OkV(r.st, IntV(NegI32(r.v.i)))
              ELSE ErrV(r.st, "Unsupported negation operation")
         ELSE IF r.v.k = "Boolean" THEN OkV(r.st, BoolV(~r.v.b))
              ELSE ErrV(r.st, "Unsupported NOT operation"))

evaluate_expr(st, e) ==
    CASE e.e = "Number"  -> OkV(st, IntV(e.n))
      [] e.e = "String"  -> OkV(st, StrV(e.s))
      [] e.e = "Boolean" -> OkV(st, BoolV(e.b))
      [] e.e = "Variable" ->
            IF e.name \in DOMAIN st.variables THEN OkV(st, st.variables[e.name])
            ELSE ErrV(st, "Variable not found")
      [] e.e = "BinaryOp" ->
            Bind(evaluate_expr(st, e.left), LAMBDA l :
            IF ~l.ok THEN l
            ELSE Bind(evaluate_expr(l.st, e.right), LAMBDA r :
                 IF ~r.ok THEN r
                 ELSE Bind(evaluate_binary_op(e.op, l.v, r.v), LAMBDA b :
                      IF b.ok THEN OkV(r.st, b.v) ELSE ErrV(r.st, b.msg))))
      [] e.e = "UnaryOp" -> evaluate_unary_op(st, e.op, e.expr)
      [] e.e = "FunctionCall" -> evaluate_function_call(st, e.name, e.args)
      [] e.e = "ArrayAccess" ->
            Bind(EvalList(st, e.indices, 1, << >>), LAMBDA ix :
            IF ~ix.ok THEN ErrV(ix.st, ix.msg)
            ELSE ArrayRead(ix.st, e.array, ix.vs))
      \* ^v: a pointer that holds the type and a clone of the value of v
      [] e.e = "PointerRef" ->
            IF e.target.e # "Variable"
            THEN ErrV(st, "Pointer reference (^) can only be applied to variables")
            ELSE IF e.target.name \notin DOMAIN st.variables_type
            THEN ErrV(st, "Variable not found for pointer reference")
            ELSE IF e.target.name \notin DOMAIN st.variables
            THEN ErrV(st, "Variable not found")
            ELSE OkV(st, PtrV(st.variables_type[e.target.name],
                              st.variables[e.target.name]))
      \* p^: the value the pointer holds
      [] e.e = "PointerDeref" ->
            Bind(evaluate_expr(st, e.pointer), LAMBDA ptr_val :
            IF ~ptr_val.ok THEN ptr_val
            ELSE IF ptr_val.v.k # "Pointer"
            THEN ErrV(ptr_val.st,
                      "Pointer dereference (^) can only be applied to pointer values")
            ELSE OkV(ptr_val.st, ptr_val.v.target))

\* the EOF arm with the WRITE case left out: position against length in
\* every mode
BuiltinEOF_NoWriteCase(st, args) ==
    IF Len(args) # 1 THEN [some |-> FALSE, v |-> IntV(0), st |-> st]
    ELSE Bind(evaluate_expr(st, args[1]), LAMBDA a :
         IF ~a.ok THEN [some |-> FALSE, v |-> IntV(0), st |-> a.st]
         ELSE IF a.v.k # "String" THEN [some |-> FALSE, v |-> IntV(0), st |-> a.st]
         ELSE IF a.v.s \notin DOMAIN a.st.open_files
         THEN [some |-> FALSE, v |-> IntV(0), st |-> a.st]
         ELSE [some |-> TRUE, st |-> a.st,
               v |-> BoolV(a.st.open_files[a.v.s].position
                             >= Len(a.st.open_files[a.v.s].content))])

\* "EOF" => ...: None when the argument is not one string naming an open file
BuiltinEOF(st, args) ==
    IF Len(args) # 1 THEN [some |-> FALSE, v |-> IntV(0), st |-> st]
    ELSE Bind(evaluate_expr(st, args[1]), LAMBDA a :
         IF ~a.ok THEN [some |-> FALSE, v |-> IntV(0), st |-> a.st]
         ELSE IF a.v.k # "String" THEN [some |-> FALSE, v |-> IntV(0), st |-> a.st]
         ELSE IF a.v.s \notin DOMAIN a.st.open_files
         THEN [some |-> FALSE, v |-> IntV(0), st |-> a.st]
         ELSE IF a.st.open_files[a.v.s].mode = "WRITE"
         THEN [some |-> TRUE, st |-> a.st, v |-> BoolV(FALSE)]
         ELSE [some |-> TRUE, st |-> a.st,
               v |-> BoolV(a.st.open_files[a.v.s].position
                             >= Len(a.st.open_files[a.v.s].content))])

\* built-ins come first; `some = FALSE` is the None that sends the call on to
\* the user-defined functions (also after a built-in rejected its arguments)
evaluate_builtin_function(st, name, args) ==
    IF name = "EOF" THEN BuiltinEOF(st, args)
    ELSE IF name \in {"MOD", "DIV"}
    THEN IF Len(args) # 2 THEN [some |-> FALSE, v |-> IntV(0), st |-> st]
         ELSE Bind(evaluate_expr(st, args[1]), LAMBDA a1 :
              IF ~a1.ok THEN [some |-> FALSE, v |-> IntV(0), st |-> a1.st]
              ELSE Bind(evaluate_expr(a1.st, args[2]), LAMBDA a2 :
                   IF ~a2.ok \/ ~BothInt(a1.v, a2.v) \/ a2.v.i = 0
                   THEN [some |-> FALSE, v |-> IntV(0), st |-> a2.st]
                   ELSE [some |-> TRUE, st |-> a2.st,
                         v |-> IF name = "MOD"
                               THEN IntV(TruncRem(a1.v.i, a2.v.i))
                               ELSE IntV(TruncDiv(a1.v.i, a2.v.i))]))
    ELSE [some |-> FALSE, v |-> IntV(0), st |-> st]

\* bind each parameter to its argument, in both maps
RECURSIVE BindParams(_, _, _, _)
BindParams(st, params, arg_values, j) ==
    IF j > Len(params) \/ j > Len(arg_values) THEN st
    ELSE BindParams([st EXCEPT
                        !.variables = Insert(@, params[j].name, arg_values[j]),
                        !.variables_type = Insert(@, params[j].name, params[j].type_name)],
                    params, arg_values, j + 1)

\* the `for stmt in &function.body` loop: only a RETURN that is itself a
\* statement of the body is recognised here; every other statement,
\* blocks included, goes to evaluate_stmt.  `ret` is Option<Value>.
FunctionBody(st, function, j) ==
    IF j > Len(function.body) THEN [ok |-> TRUE, ret |-> << >>, msg |-> "", st |-> st]
    ELSE IF function.body[j].s = "Return"
    THEN IF function.body[j].value # << >>
         THEN Bind(evaluate_expr(st, function.body[j].value[1]), LAMBDA r :
              [ok |-> r.ok, ret |-> << r.v >>, msg |-> r.msg, st |-> r.st])
         ELSE Bind(default_value(function.return_type), LAMBDA d :
              [ok |-> d.ok, ret |-> << d.v >>, msg |-> "Unsupported type", st |-> st])
    ELSE Bind(evaluate_stmt(st, function.body[j]), LAMBDA r :
         IF ~r.ok THEN [ok |-> FALSE, ret |-> << >>, msg |-> r.msg, st |-> r.st]
         ELSE FunctionBody(r.st, function, j + 1))

CallEvent(kind, name, args, entry, exit, ok, ret) ==
    [ev |-> kind, name |-> name, args |-> args,
     entry_variables |-> entry.variables, entry_types |-> entry.variables_type,
     exit_variables |-> exit.variables, exit_types |-> exit.variables_type,
     ok |-> ok, ret |-> ret]

\* the value a function call returns: the RETURN's, or the default of the
\* return type when the body ended without one
ReturnValue(function, ret) ==
    IF ret # << >> THEN ret[1]
    ELSE IF default_value(function.return_type).ok
         THEN default_value(function.return_type).v
         ELSE IntV(0)

\* what evaluate_function_call does once the function is found and its
\* arguments are evaluated
UserFunctionCall(st, name, function, arg_values) ==
    IF Len(arg_values) # Len(function.params)
    THEN ErrV(st, "Function expects a different number of arguments")
    ELSE Bind(FunctionBody(BindParams(push_call(st, name, arg_values),
                                      function.params, arg_values, 1),
                           function, 1),
         LAMBDA body :
         IF ~body.ok
         \* `?`: the error leaves without the restore and without pop_call
         THEN ErrV(Event(body.st, CallEvent("FunctionCall", name, arg_values,
                                            st, body.st, FALSE, << >>)),
                   body.msg)
         ELSE Bind(pop_call([body.st EXCEPT !.variables = st.variables,
                                            !.variables_type = st.variables_type]),
              LAMBDA restored :
              OkV(Event(restored,
                        CallEvent("FunctionCall", name, arg_values, st, restored, TRUE,
                                  << ReturnValue(function, body.ret) >>)),
                  ReturnValue(function, body.ret))))

evaluate_function_call(st, name, args) ==
    Bind(evaluate_builtin_function(st, name, args), LAMBDA b :
    IF b.some THEN OkV(b.st, b.v)
    ELSE IF name \notin DOMAIN b.st.functions THEN ErrV(b.st, "Function not found")
    ELSE Bind(EvalList(b.st, args, 1, << >>), LAMBDA a :
         IF ~a.ok THEN ErrV(a.st, "Error evaluating function arguments")
         ELSE UserFunctionCall(a.st, name, b.st.functions[name], a.vs)))

-----------------------------------------------------------------------------
(* evaluate_stmt, one operator per arm                                      *)

\* `for stmt in block { self.evaluate_stmt(stmt)?; }`
ExecBlock(st, stmts, j) ==
    IF j > Len(stmts) THEN OkS(st)
    ELSE Bind(evaluate_stmt(st, stmts[j]), LAMBDA r :
         IF ~r.ok THEN r ELSE ExecBlock(r.st, stmts, j + 1))

\* the loop over the (start, end) pairs of an ARRAY type
RECURSIVE ArrayDims(_, _, _, _, _)
ArrayDims(st, dimensions, j, dim_size, start_indices) ==
    IF j > Len(dimensions)
    THEN [ok |-> TRUE, msg |-> "", st |-> st, dim_size |-> dim_size,
          start_indices |-> start_indices]
    ELSE LET bad(m, t) == [ok |-> FALSE, msg |-> m, st |-> t, dim_size |-> dim_size,
                           start_indices |-> start_indices]
         IN  Bind(evaluate_expr(st, dimensions[j][1]), LAMBDA sv :
             IF ~sv.ok THEN bad(sv.msg, sv.st)
             ELSE Bind(evaluate_expr(sv.st, dimensions[j][2]), LAMBDA ev :
                  IF ~ev.ok THEN bad(ev.msg, ev.st)
                  ELSE IF sv.v.k # "Integer" THEN bad("Invalid start index type", ev.st)
                  ELSE IF ev.v.k # "Integer" THEN bad("Invalid end index type", ev.st)
                  ELSE IF sv.v.i < 0 \/ ev.v.i < sv.v.i
                  THEN bad("Invalid array dimensions", ev.st)
                  ELSE ArrayDims(ev.st, dimensions, j + 1,
                                 Append(dim_size, ev.v.i - sv.v.i + 1),
                                 Append(start_indices, sv.v.i))))

\* `total_size *= size` over the dimensions
RECURSIVE TotalSize(_, _, _)
TotalSize(dim_size, j, total_size) ==
    IF j > Len(dim_size) THEN total_size
    ELSE TotalSize(dim_size, j + 1, MulUsize(total_size, dim_size[j]))

CapacityOverflow == "panicked: capacity overflow"

StmtDeclare(st, s) ==
    IF s.type_name.t \in {"INTEGER", "BOOLEAN", "CHAR", "STRING"}
    THEN Bind(IF s.initial_value # << >> THEN evaluate_expr(st, s.initial_value[1])
              ELSE OkV(st, default_value(s.type_name).v),
         LAMBDA r :
         IF ~r.ok THEN ErrS(r.st, r.msg)
         ELSE OkS([r.st EXCEPT !.variables = Insert(@, s.name, r.v),
                               !.variables_type = Insert(@, s.name, s.type_name)]))
    ELSE IF s.type_name.t = "ARRAY"
    THEN Bind(ArrayDims(st, s.type_name.dimensions, 1, << >>, << >>), LAMBDA d :
         IF ~d.ok THEN ErrS(d.st, d.msg)
         ELSE Bind(default_value(s.type_name.element_type), LAMBDA dv :
              IF ~dv.ok THEN ErrS(d.st, "Unsupported type")
              \* vec![default_value; total_size] of 2^31 elements or more
              ELSE IF TotalSize(d.dim_size, 1, Usize(1)).hi >= 32768
              THEN ErrS(d.st, CapacityOverflow)
              ELSE OkS([d.st EXCEPT
                     !.variables = Insert(@, s.name,
                         ArrV(s.type_name.element_type, d.dim_size, d.start_indices,
                              [x \in 1..(TotalSize(d.dim_size, 1, Usize(1)).hi * 65536
                                           + TotalSize(d.dim_size, 1, Usize(1)).lo)
                                 |-> dv.v])),
                     !.variables_type = Insert(@, s.name, s.type_name)])))
    ELSE ErrS(st, "Unsupported type")

\* the type a CONSTANT gets when the name has none yet
InferType(v) ==
    CASE v.k = "Integer" -> [ok |-> TRUE, ty |-> TInteger]
      [] v.k = "Boolean" -> [ok |-> TRUE, ty |-> TBoolean]
      [] v.k = "Char"    -> [ok |-> TRUE, ty |-> TChar]
      [] v.k = "String"  -> [ok |-> TRUE, ty |-> TString]
      [] v.k = "Array"   -> [ok |-> TRUE, ty |-> TArray(<< >>, v.element_type)]
      [] OTHER           -> [ok |-> FALSE, ty |-> TInteger]

StmtConstant(st, s) ==
    Bind(IF s.value # << >> THEN evaluate_expr(st, s.value[1])
         ELSE IF s.name \in DOMAIN st.variables THEN OkV(st, st.variables[s.name])
         ELSE ErrV(st, "Constant cannot be locked: variable does not exist"),
    LAMBDA r :
    IF ~r.ok THEN ErrS(r.st, r.msg)
    ELSE Bind([r.st EXCEPT !.variables = Insert(@, s.name, r.v)], LAMBDA stored :
         IF s.name \in DOMAIN stored.variables_type
         THEN OkS([stored EXCEPT !.constants = @ \cup {s.name}])
         ELSE IF ~InferType(r.v).ok THEN ErrS(stored, "Cannot infer type for constant")
         ELSE OkS([stored EXCEPT
                      !.variables_type = Insert(@, s.name, InferType(r.v).ty),
                      !.constants = @ \cup {s.name}])))

\* AssignIndexed that writes at the user's index, the base not subtracted
AssignIndexed_NoBase(st, name, index_values, value) ==
    IF name \notin DOMAIN st.variables THEN ErrS(st, "Array not found")
    ELSE Bind(st.variables[name], LAMBDA array :
         IF array.k # "Array" THEN ErrS(st, "Variable is not an array")
         ELSE IF Len(index_values) # Len(array.start_indices)
         THEN ErrS(st, "Index dimension mismatch")
         ELSE Bind(TranslateIndices(index_values,
                       [d \in DOMAIN array.start_indices |-> 0], 1, << >>),
              LAMBDA t :
              IF ~t.ok THEN ErrS(st, t.msg)
              ELSE Bind(calculate_array_index(t.pos, array.dimensions), LAMBDA c :
                   IF ~c.ok THEN ErrS(st, c.msg)
                   ELSE IF c.idx >= Len(array.data)
                   THEN ErrS(st, "Index out of bounds")
                   ELSE OkS([st EXCEPT !.variables[name].data[c.idx + 1] = value]))))

\* Stmt::Assign with indices, once value and indices are evaluated
AssignIndexed(st, name, index_values, value) ==
    IF name \notin DOMAIN st.variables THEN ErrS(st, "Array not found")
    ELSE Bind(st.variables[name], LAMBDA array :
         IF array.k # "Array" THEN ErrS(st, "Variable is not an array")
         ELSE IF Len(index_values) # Len(array.start_indices)
         THEN ErrS(st, "Index dimension mismatch")
         ELSE Bind(TranslateIndices(index_values, array.start_indices, 1, << >>),
              LAMBDA t :
              IF ~t.ok THEN ErrS(st, t.msg)
              ELSE Bind(calculate_array_index(t.pos, array.dimensions), LAMBDA c :
                   IF ~c.ok THEN ErrS(st, c.msg)
                   ELSE IF c.idx >= Len(array.data)
                   THEN ErrS(st, "Index out of bounds")
                   ELSE OkS([st EXCEPT !.variables[name].data[c.idx + 1] = value]))))

\* StmtAssign with the constant check left out
\* AssignPointer that binds the pointer variable itself to the value
AssignPointer_Rebind(st, ptr_name, value) ==
    IF ptr_name \notin DOMAIN st.variables THEN ErrS(st, "Pointer variable not found")
    ELSE IF st.variables[ptr_name].k # "Pointer"
    THEN ErrS(st, "Pointer dereference assignment on non-pointer variable")
    ELSE OkS([st EXCEPT !.variables[ptr_name] = value])

\* ptr^ <- value: `**target = value` on the pointer stored under ptr_name
AssignPointer(st, ptr_name, value) ==
    IF ptr_name \notin DOMAIN st.variables THEN ErrS(st, "Pointer variable not found")
    ELSE IF st.variables[ptr_name].k # "Pointer"
    THEN ErrS(st, "Pointer dereference assignment on non-pointer variable")
    ELSE OkS([st EXCEPT !.variables[ptr_name].target = value])

StmtAssign_NoConstantCheck(st, s) ==
    Bind(evaluate_expr(st, s.expression), LAMBDA r :
    IF ~r.ok THEN ErrS(r.st, r.msg)
    ELSE IF s.is_pointer_deref THEN AssignPointer(r.st, s.name, r.v)
    ELSE IF s.has_indices
    THEN Bind(EvalList(r.st, s.indices, 1, << >>), LAMBDA ix :
         IF ~ix.ok THEN ErrS(ix.st, ix.msg)
         ELSE AssignIndexed(ix.st, s.name, ix.vs, r.v))
    ELSE OkS([r.st EXCEPT !.variables = Insert(@, s.name, r.v)]))

StmtAssign(st, s) ==
    \* a name that ends in "^" is the name of no constant
    IF ~s.is_pointer_deref /\ s.name \in st.constants
    THEN ErrS(st, "Cannot assign to constant")
    ELSE Bind(evaluate_expr(st, s.expression), LAMBDA r :
         IF ~r.ok THEN ErrS(r.st, r.msg)
         ELSE IF s.is_pointer_deref THEN AssignPointer(r.st, s.name, r.v)
         ELSE IF s.has_indices
         THEN Bind(EvalList(r.st, s.indices, 1, << >>), LAMBDA ix :
              IF ~ix.ok THEN ErrS(ix.st, ix.msg)
              ELSE AssignIndexed(ix.st, s.name, ix.vs, r.v))
         \* simple variable assignment: only `variables` is written
         ELSE OkS([r.st EXCEPT !.variables = Insert(@, s.name, r.v)]))

\* OUTPUT appends each value as soon as it is evaluated, then the newline
RECURSIVE OutputLoop(_, _, _)
OutputLoop(st, exprs, j) ==
    IF j > Len(exprs) THEN OkS([st EXCEPT !.output_buffer = @ \o << "\n" >>])
    ELSE Bind(evaluate_expr(st, exprs[j]), LAMBDA r :
         IF ~r.ok THEN ErrS(r.st, r.msg)
         ELSE OutputLoop([r.st EXCEPT !.output_buffer = @ \o value_to_string(r.v)],
                         exprs, j + 1))

\* str::trim
Whitespace == { " ", "\t", "\n", "\r" }

RECURSIVE trim_start(_)
trim_start(input) ==
    IF Len(input) > 0 /\ input[1] \in Whitespace THEN trim_start(Tail(input)) ELSE input

RECURSIVE trim_end(_)
trim_end(input) ==
    IF Len(input) > 0 /\ input[Len(input)] \in Whitespace
    THEN trim_end(SubSeq(input, 1, Len(input) - 1)) ELSE input

trim(input) == trim_end(trim_start(input))

DigitValue(c) == CHOOSE d \in 0..9 : Digits[d + 1] = c

IsDigit(c) == \E d \in 0..9 : Digits[d + 1] = c

\* the digits from j on, added to acc (subtracted for a negative number,
\* as i32::from_str does); an error when the number does not fit an i32
RECURSIVE ParseDigits(_, _, _, _)
ParseDigits(input, j, negative, acc) ==
    IF j > Len(input) THEN [ok |-> TRUE, n |-> acc]
    ELSE IF ~IsDigit(input[j]) THEN [ok |-> FALSE, n |-> 0]
    ELSE IF negative
    THEN (IF \/ acc < -(I32Max \div 10)
             \/ acc = -(I32Max \div 10) /\ DigitValue(input[j]) > (I32Max % 10) + 1
          THEN [ok |-> FALSE, n |-> 0]
          ELSE ParseDigits(input, j + 1, negative, acc * 10 - DigitValue(input[j])))
    ELSE (IF \/ acc > I32Max \div 10
             \/ acc = I32Max \div 10 /\ DigitValue(input[j]) > I32Max % 10
          THEN [ok |-> FALSE, n |-> 0]
          ELSE ParseDigits(input, j + 1, negative, acc * 10 + DigitValue(input[j])))

\* str::parse::<i32>: an optional sign, then at least one digit
ParseI32(input) ==
    IF Len(input) > 0 /\ input[1] \in { "+", "-" }
    THEN (IF Len(input) = 1 THEN [ok |-> FALSE, n |-> 0]
          ELSE ParseDigits(input, 2, input[1] = "-", 0))
    ELSE IF Len(input) = 0 THEN [ok |-> FALSE, n |-> 0]
    ELSE ParseDigits(input, 1, FALSE, 0)

\* str::to_lowercase on the letters the boolean words are made of
LowerOf(c) ==
    CASE c = "T" -> "t" [] c = "R" -> "r" [] c = "U" -> "u" [] c = "E" -> "e"
      [] c = "F" -> "f" [] c = "A" -> "a" [] c = "L" -> "l" [] c = "S" -> "s"
      [] c = "Y" -> "y" [] c = "N" -> "n" [] c = "O" -> "o" [] OTHER -> c

to_lowercase(input) == [i \in DOMAIN input |-> LowerOf(input[i])]

\* the value INPUT makes of the line for a variable of type var_type
\* (REAL is outside the value universe of the model)
InputValue(var_type, input) ==
    CASE var_type.t = "INTEGER" ->
             Bind(ParseI32(input), LAMBDA p :
             IF p.ok THEN OkVal(IntV(p.n)) ELSE ErrVal("Invalid integer"))
      [] var_type.t = "STRING" -> OkVal(StrV(input))
      [] var_type.t = "CHAR" ->
             IF Len(input) = 1 THEN OkVal(CharV(input[1])) ELSE ErrVal("Invalid char")
      [] var_type.t = "BOOLEAN" ->
             IF to_lowercase(input) \in
                    { << "t", "r", "u", "e" >>, << "1" >>, << "y", "e", "s" >> }
             THEN OkVal(BoolV(TRUE))
             ELSE IF to_lowercase(input) \in
                    { << "f", "a", "l", "s", "e" >>, << "0" >>, << "n", "o" >> }
             THEN OkVal(BoolV(FALSE))
             ELSE ErrVal("Invalid boolean")
      [] OTHER -> ErrVal("Input not supported for type")

\* INPUT: `self.input_queue.pop()` takes the last element of the Vec
StmtInput(st, s) ==
    IF s.name \notin DOMAIN st.variables_type THEN ErrS(st, "Variable not found")
    ELSE IF Len(st.input_queue) = 0 THEN ErrS(st, "No input available")
    ELSE Bind([st EXCEPT !.input_queue = SubSeq(@, 1, Len(@) - 1)], LAMBDA popped :
         Bind(InputValue(st.variables_type[s.name],
                         trim(st.input_queue[Len(st.input_queue)])),
              LAMBDA value :
              IF ~value.ok THEN ErrS(popped, value.msg)
              ELSE OkS([popped EXCEPT !.variables = Insert(@, s.name, value.v)])))

StmtIf(st, s) ==
    Bind(evaluate_expr(st, s.condition), LAMBDA c :
    IF ~c.ok THEN ErrS(c.st, c.msg)
    ELSE IF ~Truthy(c.v).ok THEN ErrS(c.st, "Invalid condition type")
    ELSE Bind(IF Truthy(c.v).b
              THEN ExecBlock(push_context(c.st, "in IF block"), s.then_stmt, 1)
              ELSE IF s.has_else
              THEN ExecBlock(push_context(c.st, "in IF block"), s.else_stmt, 1)
              ELSE OkS(push_context(c.st, "in IF block")),
         LAMBDA r :
         IF ~r.ok THEN r ELSE OkS(pop_context(r.st))))

\* the `loop { .. }` of Stmt::While: condition, then the body
WhileLoop(st, s) ==
    Bind(evaluate_expr(st, s.condition), LAMBDA c :
    IF ~c.ok THEN ErrS(c.st, c.msg)
    ELSE IF ~Truthy(c.v).ok THEN ErrS(pop_context(c.st), "Invalid condition type")
    ELSE IF ~Truthy(c.v).b THEN OkS(pop_context(c.st))
    ELSE Bind(ExecBlock(push_context(pop_context(c.st), "in WHILE loop (iteration)"),
                        s.body, 1),
         LAMBDA body :
         IF ~body.ok THEN body ELSE WhileLoop(body.st, s)))

StmtWhile(st, s) == WhileLoop(push_context(st, "in WHILE loop"), s)

\* the `loop { .. }` of Stmt::RepeatUntil: the body, then the condition
RepeatLoop(st, s) ==
    Bind(ExecBlock(push_context(pop_context(st), "in REPEAT...UNTIL loop (iteration)"),
                   s.body, 1),
    LAMBDA body :
    IF ~body.ok THEN body
    ELSE Bind(evaluate_expr(body.st, s.condition), LAMBDA c :
         IF ~c.ok THEN ErrS(c.st, c.msg)
         ELSE IF ~Truthy(c.v).ok THEN ErrS(pop_context(c.st), "Invalid condition type")
         ELSE IF Truthy(c.v).b THEN OkS(pop_context(c.st))
         ELSE RepeatLoop(c.st, s)))

StmtRepeatUntil(st, s) == RepeatLoop(push_context(st, "in REPEAT...UNTIL loop"), s)

BlockEvent(kind, name, entry, exit, ok) ==
    [ev |-> kind, name |-> name, args |-> << >>,
     entry_variables |-> entry.variables, entry_types |-> entry.variables_type,
     exit_variables |-> exit.variables, exit_types |-> exit.variables_type,
     ok |-> ok, ret |-> << >>]

\* the `loop { ... }` of Stmt::For; `current` is the loop's own local, the
\* variable `counter` is rewritten from it after every iteration
ForLoop(st, s, current, end_int, step_int) ==
    IF ~(IF step_int > 0 THEN current <= end_int ELSE current >= end_int)
    THEN OkS(st)
    ELSE Bind(ExecBlock(push_context(pop_context(st), "in FOR loop (counter = current)"),
                        s.body, 1),
         LAMBDA body :
         IF ~body.ok THEN body
         ELSE ForLoop([body.st EXCEPT
                          !.variables = Insert(@, s.counter,
                                               IntV(AddI32(current, step_int)))],
                      s, AddI32(current, step_int), end_int, step_int))

\* RestoreCounter that puts back the value only: the type the loop gave the
\* counter stays
RestoreCounter_ValueOnly(popped, before, counter) ==
    IF counter \in DOMAIN before.variables
    THEN [popped EXCEPT !.variables = Insert(@, counter, before.variables[counter])]
    ELSE [popped EXCEPT !.variables = Remove(@, counter)]

\* after the loop: put back the counter's earlier value and type, or remove
\* the counter when it had no value before
RestoreCounter(popped, before, counter) ==
    IF counter \in DOMAIN before.variables
    THEN [popped EXCEPT
            !.variables = Insert(@, counter, before.variables[counter]),
            !.variables_type =
                IF counter \in DOMAIN before.variables_type
                THEN Insert(@, counter, before.variables_type[counter])
                ELSE @]
    ELSE [popped EXCEPT !.variables = Remove(@, counter),
                        !.variables_type = Remove(@, counter)]

\* Stmt::For once start, end and step are integers and the step is not 0;
\* `before` is the interpreter the loop starts from
RunFor(before, s, start_int, end_int, step_int) ==
    Bind(ForLoop([push_context(before, "in FOR loop") EXCEPT
                     !.variables_type = Insert(@, s.counter, TInteger),
                     !.variables = Insert(@, s.counter, IntV(start_int))],
                 s, start_int, end_int, step_int),
    LAMBDA loop :
    IF ~loop.ok
    \* `?` inside the loop: no pop_context, no restore
    THEN ErrS(Event(loop.st, BlockEvent("For", s.counter, before, loop.st, FALSE)),
              loop.msg)
    ELSE Bind(RestoreCounter(pop_context(loop.st), before, s.counter),
         LAMBDA restored :
         OkS(Event(restored, BlockEvent("For", s.counter, before, restored, TRUE)))))

StmtFor(st, s) ==
    Bind(evaluate_expr(st, s.start), LAMBDA sv :
    IF ~sv.ok THEN ErrS(sv.st, sv.msg)
    ELSE Bind(evaluate_expr(sv.st, s.end), LAMBDA ev :
         IF ~ev.ok THEN ErrS(ev.st, ev.msg)
         ELSE Bind(IF s.step # << >> THEN evaluate_expr(ev.st, s.step[1])
                   ELSE OkV(ev.st, IntV(1)),
              LAMBDA kv :
              IF ~kv.ok THEN ErrS(kv.st, kv.msg)
              ELSE IF ~(sv.v.k = "Integer" /\ ev.v.k = "Integer" /\ kv.v.k = "Integer")
              THEN ErrS(kv.st, "FOR loop requires integer values")
              ELSE IF kv.v.i = 0 THEN ErrS(kv.st, "FOR loop step cannot be zero")
              ELSE RunFor(kv.st, s, sv.v.i, ev.v.i, kv.v.i))))

\* `&expr_value == &case_value`: the derived PartialEq of Value
ValueEq(a, b) == a.k = b.k /\ a = b

\* the `for case in cases` loop of Stmt::Case without its `break`
CaseLoop_NoBreak(st, s, expr_value, j, matched) ==
    IF j > Len(s.cases)
    THEN (IF ~matched /\ s.otherwise # << >> THEN ExecBlock(st, s.otherwise[1], 1)
          ELSE OkS(st))
    ELSE Bind(evaluate_expr(st, s.cases[j].value), LAMBDA case_value :
         IF ~case_value.ok THEN ErrS(case_value.st, case_value.msg)
         ELSE IF ValueEq(expr_value, case_value.v)
         THEN Bind(ExecBlock(case_value.st, s.cases[j].body, 1), LAMBDA body :
              IF ~body.ok THEN body
              ELSE CaseLoop(body.st, s, expr_value, j + 1, TRUE))
         ELSE CaseLoop(case_value.st, s, expr_value, j + 1, matched))

\* the `for case in cases` loop of Stmt::Case and what follows it: the
\* first equal label runs its body and ends the loop; OTHERWISE runs when
\* nothing matched
CaseLoop(st, s, expr_value, j, matched) ==
    IF j > Len(s.cases)
    THEN (IF ~matched /\ s.otherwise # << >> THEN ExecBlock(st, s.otherwise[1], 1)
          ELSE OkS(st))
    ELSE Bind(evaluate_expr(st, s.cases[j].value), LAMBDA case_value :
         IF ~case_value.ok THEN ErrS(case_value.st, case_value.msg)
         ELSE IF ValueEq(expr_value, case_value.v)
         THEN ExecBlock(case_value.st, s.cases[j].body, 1)
         ELSE CaseLoop(case_value.st, s, expr_value, j + 1, matched))

StmtCase(st, s) ==
    Bind(evaluate_expr(st, s.expression), LAMBDA expr_value :
    IF ~expr_value.ok THEN ErrS(expr_value.st, expr_value.msg)
    ELSE CaseLoop(expr_value.st, s, expr_value.v, 1, FALSE))

\* StmtFunctionDeclaration without the `contains_key` check
StmtFunctionDeclaration_Overwrite(st, s) ==
    OkS([st EXCEPT !.functions = Insert(@, s.function.name, s.function)])

StmtFunctionDeclaration(st, s) ==
    IF s.function.name \in DOMAIN st.functions THEN ErrS(st, "Function already declared")
    ELSE OkS([st EXCEPT !.functions = Insert(@, s.function.name, s.function)])

StmtProcedureDeclaration(st, s) ==
    IF s.procedure.name \in DOMAIN st.procedures
    THEN ErrS(st, "Procedure already declared")
    ELSE OkS([st EXCEPT !.procedures = Insert(@, s.procedure.name, s.procedure)])

\* RunProcedure whose restore takes the handle table back as well
RunProcedure_RestoreHandles(entry, name, procedure, arg_values) ==
    Bind(ExecBlock(BindParams(push_call(entry, name, arg_values),
                              procedure.params, arg_values, 1),
                   procedure.body, 1),
    LAMBDA body :
    IF ~body.ok
    THEN ErrS(Event(body.st, CallEvent("Call", name, arg_values, entry,
                                       body.st, FALSE, << >>)),
              body.msg)
    ELSE Bind(pop_call([body.st EXCEPT !.variables = entry.variables,
                                       !.variables_type = entry.variables_type,
                                       !.open_files = entry.open_files]),
         LAMBDA restored :
         OkS(Event(restored, CallEvent("Call", name, arg_values, entry,
                                       restored, TRUE, << >>)))))

\* Stmt::Call once the procedure is found and its arguments are evaluated;
\* `entry` is the interpreter the snapshot is taken from
RunProcedure(entry, name, procedure, arg_values) ==
    Bind(ExecBlock(BindParams(push_call(entry, name, arg_values),
                              procedure.params, arg_values, 1),
                   procedure.body, 1),
    LAMBDA body :
    IF ~body.ok
    \* `?`: the error leaves without the restore and pop_call
    THEN ErrS(Event(body.st, CallEvent("Call", name, arg_values, entry,
                                       body.st, FALSE, << >>)),
              body.msg)
    ELSE Bind(pop_call([body.st EXCEPT !.variables = entry.variables,
                                       !.variables_type = entry.variables_type]),
         LAMBDA restored :
         OkS(Event(restored, CallEvent("Call", name, arg_values, entry,
                                       restored, TRUE, << >>)))))

StmtCall(st, s) ==
    IF s.name \notin DOMAIN st.procedures THEN ErrS(st, "Procedure not found")
    ELSE Bind(EvalList(st, s.args, 1, << >>), LAMBDA a :
         IF ~a.ok THEN ErrS(a.st, "Error evaluating procedure arguments")
         ELSE IF Len(a.vs) # Len(st.procedures[s.name].params)
         THEN ErrS(a.st, "Procedure expects a different number of arguments")
         ELSE RunProcedure(a.st, s.name, st.procedures[s.name], a.vs))

\* reached only for a RETURN that FunctionBody did not take
StmtReturn(st, s) == ErrS(st, "RETURN statement outside of function")

\* the filename expression of a file statement: must evaluate to a String
EvalFilename(st, e) ==
    Bind(evaluate_expr(st, e), LAMBDA r :
    IF ~r.ok THEN [ok |-> FALSE, name |-> << >>, msg |-> r.msg, st |-> r.st]
    ELSE IF r.v.k # "String"
    THEN [ok |-> FALSE, name |-> << >>, msg |-> "Filename must be a string", st |-> r.st]
    ELSE [ok |-> TRUE, name |-> r.v.s, msg |-> "", st |-> r.st])

VirtualFileHandle(content, position, mode) ==
    [content |-> content, position |-> position, mode |-> mode]

\* StmtOpenFile with the already-open check left out
StmtOpenFile_NoOpenCheck(st, s) ==
    Bind(EvalFilename(st, s.filename), LAMBDA f :
    IF ~f.ok THEN ErrS(f.st, f.msg)
    ELSE IF s.mode = "READ" /\ f.name \notin DOMAIN f.st.virtual_files
    THEN ErrS(f.st, "File not found in virtual file system")
    ELSE OkS([f.st EXCEPT !.open_files =
                 Insert(@, f.name,
                        VirtualFileHandle(IF f.name \in DOMAIN f.st.virtual_files
                                          THEN f.st.virtual_files[f.name] ELSE << >>,
                                          0, s.mode))]))

StmtOpenFile(st, s) ==
    Bind(EvalFilename(st, s.filename), LAMBDA f :
    IF ~f.ok THEN ErrS(f.st, f.msg)
    ELSE IF f.name \in DOMAIN f.st.open_files THEN ErrS(f.st, "File already open")
    ELSE IF s.mode = "READ" /\ f.name \notin DOMAIN f.st.virtual_files
    THEN ErrS(f.st, "File not found in virtual file system")
    \* WRITE and RANDOM take the virtual file's content when there is one
    ELSE OkS([f.st EXCEPT !.open_files =
                 Insert(@, f.name,
                        VirtualFileHandle(IF f.name \in DOMAIN f.st.virtual_files
                                          THEN f.st.virtual_files[f.name] ELSE << >>,
                                          0, s.mode))]))

\* StmtCloseFile that drops the handle without storing its content
StmtCloseFile_NoWriteBack(st, s) ==
    Bind(EvalFilename(st, s.filename), LAMBDA f :
    IF ~f.ok THEN ErrS(f.st, f.msg)
    ELSE IF f.name \in DOMAIN f.st.open_files
    THEN OkS([f.st EXCEPT !.open_files = Remove(@, f.name)])
    ELSE ErrS(f.st, "File is not open"))

StmtCloseFile(st, s) ==
    Bind(EvalFilename(st, s.filename), LAMBDA f :
    IF ~f.ok THEN ErrS(f.st, f.msg)
    ELSE IF f.name \in DOMAIN f.st.open_files
    THEN OkS([f.st EXCEPT
                !.open_files = Remove(@, f.name),
                !.virtual_files = Insert(@, f.name, f.st.open_files[f.name].content)])
    ELSE ErrS(f.st, "File is not open"))

\* the expressions of WRITEFILE, stringified and concatenated
RECURSIVE WriteFileOutput(_, _, _, _)
WriteFileOutput(st, exprs, j, output) ==
    IF j > Len(exprs) THEN [ok |-> TRUE, output |-> output, msg |-> "", st |-> st]
    ELSE Bind(evaluate_expr(st, exprs[j]), LAMBDA r :
         IF ~r.ok THEN [ok |-> FALSE, output |-> output, msg |-> r.msg, st |-> r.st]
         ELSE WriteFileOutput(r.st, exprs, j + 1, output \o value_to_string(r.v)))

\* Strings are UTF-8: an ASCII byte is written as its character, any other
\* byte as its two hexadecimal digits.  The bytes the model uses beside
\* ASCII are those of U+00E9 (C3 A9) and of U+FFFD (EF BF BD), and 00.
ZeroByte == "00"

Lead2 == { "C3" }

Lead3 == { "EF" }

Continuation == { "A9", "BF", "BD" }

ReplacementCharacter == << "EF", "BF", "BD" >>

\* str::is_char_boundary
is_char_boundary(content, index) ==
    \/ index = 0
    \/ index = Len(content)
    \/ index < Len(content) /\ content[index + 1] \notin Continuation

\* a slice or a replace_range whose ends are not on character boundaries
\* panics; the panic ends the engine call that was running
Panic == "panicked: byte index is not a char boundary"

\* String::insert_str
InsertStr(content, pos, text) ==
    SubSeq(content, 1, pos) \o text \o SubSeq(content, pos + 1, Len(content))

\* insert_str panics when the place it inserts at is inside a character
InsertOnBoundary(h) ==
    h.mode = "RANDOM" => is_char_boundary(h.content, Min2(h.position, Len(h.content)))

\* the handle after WRITEFILE wrote `output` through it
WrittenHandle(h, output) ==
    IF h.mode = "RANDOM"
    THEN [h EXCEPT !.content = InsertStr(h.content, Min2(h.position, Len(h.content)),
                                         output),
                   !.position = h.position + Len(output)]
    ELSE [h EXCEPT !.content = h.content \o output,
                   !.position = Len(h.content \o output)]

\* StmtWriteFile that writes what it has stringified so far when an
\* expression fails
StmtWriteFile_PartialOnError(st, s) ==
    Bind(EvalFilename(st, s.filename), LAMBDA f :
    IF ~f.ok THEN ErrS(f.st, f.msg)
    ELSE Bind(WriteFileOutput(f.st, s.exprs, 1, << >>), LAMBDA o :
         IF ~o.ok
         THEN ErrS(IF f.name \in DOMAIN o.st.open_files
                   THEN [o.st EXCEPT !.open_files[f.name] = WrittenHandle(@, o.output)]
                   ELSE o.st, o.msg)
         ELSE IF f.name \notin DOMAIN o.st.open_files THEN ErrS(o.st, "File is not open")
         ELSE IF o.st.open_files[f.name].mode = "READ"
         THEN ErrS(o.st, "Cannot write to file opened in READ mode")
         ELSE IF ~InsertOnBoundary(o.st.open_files[f.name]) THEN ErrS(o.st, Panic)
         ELSE OkS([o.st EXCEPT !.open_files[f.name] = WrittenHandle(@, o.output)])))

StmtWriteFile(st, s) ==
    Bind(EvalFilename(st, s.filename), LAMBDA f :
    IF ~f.ok THEN ErrS(f.st, f.msg)
    ELSE Bind(WriteFileOutput(f.st, s.exprs, 1, << >>), LAMBDA o :
         IF ~o.ok THEN ErrS(o.st, o.msg)
         ELSE IF f.name \notin DOMAIN o.st.open_files THEN ErrS(o.st, "File is not open")
         ELSE IF o.st.open_files[f.name].mode = "READ"
         THEN ErrS(o.st, "Cannot write to file opened in READ mode")
         ELSE IF ~InsertOnBoundary(o.st.open_files[f.name]) THEN ErrS(o.st, Panic)
         ELSE OkS([o.st EXCEPT !.open_files[f.name] = WrittenHandle(@, o.output)])))

\* the size of a record of GETRECORD and PUTRECORD, in bytes
RecordSize == 256

\* where the line that starts after `pos` ends: just after the next "\n",
\* or at the end of the content
LineEnd(content, pos) ==
    IF \E i \in (pos + 1)..Len(content) : content[i] = "\n"
    THEN CHOOSE i \in (pos + 1)..Len(content) :
             /\ content[i] = "\n"
             /\ \A k \in (pos + 1)..(i - 1) : content[k] # "\n"
    ELSE Len(content)

\* str::trim_end_matches(c)
RECURSIVE trim_end_matches(_, _)
trim_end_matches(line, c) ==
    IF Len(line) > 0 /\ line[Len(line)] = c
    THEN trim_end_matches(SubSeq(line, 1, Len(line) - 1), c)
    ELSE line

\* the checks on the variable READFILE stores into
ReadFileStore(st, name, line) ==
    IF name \notin DOMAIN st.variables_type THEN ErrS(st, "Variable not found")
    ELSE IF st.variables_type[name] # TString
    THEN ErrS(st, "READFILE variable must be STRING type")
    ELSE OkS([st EXCEPT !.variables = Insert(@, name, StrV(line))])

\* READFILE: the position moves past the line before the variable is checked
StmtReadFile(st, s) ==
    Bind(EvalFilename(st, s.filename), LAMBDA f :
    IF ~f.ok THEN ErrS(f.st, f.msg)
    ELSE IF f.name \notin DOMAIN f.st.open_files THEN ErrS(f.st, "File is not open")
    ELSE IF f.st.open_files[f.name].mode = "WRITE"
    THEN ErrS(f.st, "Cannot read from file opened in WRITE mode")
    ELSE Bind(f.st.open_files[f.name], LAMBDA h :
         IF h.position >= Len(h.content) THEN ReadFileStore(f.st, s.name, << >>)
         ELSE IF ~is_char_boundary(h.content, h.position) THEN ErrS(f.st, Panic)
         ELSE ReadFileStore(
                  [f.st EXCEPT !.open_files[f.name].position =
                                   LineEnd(h.content, h.position)],
                  s.name,
                  trim_end_matches(
                      trim_end_matches(
                          SubSeq(h.content, h.position + 1, LineEnd(h.content, h.position)),
                          "\r"),
                      "\n"))))

\* StmtSeek that takes an address beyond the end as it is
StmtSeek_Unclamped(st, s) ==
    Bind(EvalFilename(st, s.filename), LAMBDA f :
    IF ~f.ok THEN ErrS(f.st, f.msg)
    ELSE Bind(evaluate_expr(f.st, s.address), LAMBDA a :
         IF ~a.ok THEN ErrS(a.st, a.msg)
         ELSE IF a.v.k # "Integer" THEN ErrS(a.st, "SEEK expects INTEGER address")
         ELSE IF f.name \notin DOMAIN a.st.open_files THEN ErrS(a.st, "File is not open")
         ELSE IF a.st.open_files[f.name].mode # "RANDOM"
         THEN ErrS(a.st, "SEEK only works with files opened in RANDOM mode")
         ELSE OkS([a.st EXCEPT !.open_files[f.name].position =
                      IF a.v.i < 0 THEN Len(a.st.open_files[f.name].content)
                      ELSE a.v.i])))

\* SEEK: RANDOM handles only; `(address_int as usize).min(content.len())`
\* sends a negative address to the end of the content
StmtSeek(st, s) ==
    Bind(EvalFilename(st, s.filename), LAMBDA f :
    IF ~f.ok THEN ErrS(f.st, f.msg)
    ELSE Bind(evaluate_expr(f.st, s.address), LAMBDA a :
         IF ~a.ok THEN ErrS(a.st, a.msg)
         ELSE IF a.v.k # "Integer" THEN ErrS(a.st, "SEEK expects INTEGER address")
         ELSE IF f.name \notin DOMAIN a.st.open_files THEN ErrS(a.st, "File is not open")
         ELSE IF a.st.open_files[f.name].mode # "RANDOM"
         THEN ErrS(a.st, "SEEK only works with files opened in RANDOM mode")
         ELSE OkS([a.st EXCEPT !.open_files[f.name].position =
                      IF a.v.i < 0 THEN Len(a.st.open_files[f.name].content)
                      ELSE Min2(a.v.i, Len(a.st.open_files[f.name].content))])))

\* String::from_utf8_lossy, byte by byte: what the byte at j contributes.
\* A well-formed character is kept; every maximal ill-formed part becomes
\* one U+FFFD, given out at its first byte.
Utf8Piece(bytes, j) ==
    IF bytes[j] \in Lead2
    THEN (IF j + 1 <= Len(bytes) /\ bytes[j + 1] \in Continuation
          THEN << bytes[j] >> ELSE ReplacementCharacter)
    ELSE IF bytes[j] \in Lead3
    THEN (IF /\ j + 2 <= Len(bytes)
             /\ bytes[j + 1] \in Continuation /\ bytes[j + 2] \in Continuation
          THEN << bytes[j] >> ELSE ReplacementCharacter)
    ELSE IF bytes[j] \in Continuation
    THEN (IF j > 1 /\ bytes[j - 1] \in Lead2 THEN << bytes[j] >>
          ELSE IF j > 1 /\ bytes[j - 1] \in Lead3
          THEN (IF j + 1 <= Len(bytes) /\ bytes[j + 1] \in Continuation
                THEN << bytes[j] >> ELSE << >>)
          ELSE IF j > 2 /\ bytes[j - 1] \in Continuation /\ bytes[j - 2] \in Lead3
                  /\ (j = 3 \/ bytes[j - 3] \notin Lead3)
          THEN << bytes[j] >>
          ELSE ReplacementCharacter)
    ELSE << bytes[j] >>

\* the pieces of bytes[lo..hi], concatenated
RECURSIVE from_utf8_lossy(_, _, _)
from_utf8_lossy(bytes, lo, hi) ==
    IF lo > hi THEN << >>
    ELSE IF lo = hi THEN Utf8Piece(bytes, lo)
    ELSE from_utf8_lossy(bytes, lo, (lo + hi) \div 2)
             \o from_utf8_lossy(bytes, (lo + hi) \div 2 + 1, hi)

\* `record.truncate(record_size); record.resize(record_size, 0)`
TruncateResize(bytes) ==
    [i \in 1..RecordSize |-> IF i <= Len(bytes) THEN bytes[i] ELSE ZeroByte]

\* GETRECORD
StmtGetRecord(st, s) ==
    Bind(EvalFilename(st, s.filename), LAMBDA f :
    IF ~f.ok THEN ErrS(f.st, f.msg)
    ELSE IF f.name \notin DOMAIN f.st.open_files THEN ErrS(f.st, "File is not open")
    ELSE IF f.st.open_files[f.name].mode # "RANDOM"
    THEN ErrS(f.st, "GETRECORD only works with files opened in RANDOM mode")
    ELSE Bind(f.st.open_files[f.name], LAMBDA h :
         IF h.position >= Len(h.content) THEN ErrS(f.st, "End of file reached in GETRECORD")
         ELSE Bind(Min2(h.position + RecordSize, Len(h.content)), LAMBDA end_pos :
              IF ~(is_char_boundary(h.content, h.position)
                     /\ is_char_boundary(h.content, end_pos))
              THEN ErrS(f.st, Panic)
              ELSE OkS([f.st EXCEPT
                          !.open_files[f.name].position = end_pos,
                          !.variables = Insert(@, s.variable,
                              StrV(SubSeq(h.content, h.position + 1, end_pos)))]))))

\* the handle after PUTRECORD put record_str at its position
PutHandle(h, record_str) ==
    IF h.position >= Len(h.content)
    THEN [h EXCEPT !.content = h.content \o record_str,
                   !.position = h.position + RecordSize]
    ELSE [h EXCEPT !.content = SubSeq(h.content, 1, h.position) \o record_str
                                  \o SubSeq(h.content,
                                            Min2(h.position + RecordSize, Len(h.content)) + 1,
                                            Len(h.content)),
                   !.position = h.position + RecordSize]

\* PUTRECORD
StmtPutRecord(st, s) ==
    Bind(EvalFilename(st, s.filename), LAMBDA f :
    IF ~f.ok THEN ErrS(f.st, f.msg)
    ELSE IF s.variable \notin DOMAIN f.st.variables THEN ErrS(f.st, "Variable not found")
    ELSE IF f.name \notin DOMAIN f.st.open_files THEN ErrS(f.st, "File is not open")
    ELSE IF f.st.open_files[f.name].mode # "RANDOM"
    THEN ErrS(f.st, "PUTRECORD only works with files opened in RANDOM mode")
    ELSE Bind(f.st.open_files[f.name], LAMBDA h :
         IF /\ h.position < Len(h.content)
            /\ ~(is_char_boundary(h.content, h.position)
                   /\ is_char_boundary(h.content,
                                       Min2(h.position + RecordSize, Len(h.content))))
         THEN ErrS(f.st, Panic)
         ELSE OkS([f.st EXCEPT !.open_files[f.name] =
                      PutHandle(h, from_utf8_lossy(
                          TruncateResize(value_to_string(f.st.variables[s.variable])),
                          1, RecordSize))])))

\* the match of evaluate_stmt
StmtArm(st, s) ==
    CASE s.s = "Declare"  -> StmtDeclare(st, s)
      [] s.s = "Constant" -> StmtConstant(st, s)
      [] s.s = "Assign"   -> StmtAssign(st, s)
      [] s.s = "Output"   -> OutputLoop(st, s.exprs, 1)
      [] s.s = "Input"    -> StmtInput(st, s)
      [] s.s = "If"       -> StmtIf(st, s)
      [] s.s = "While"    -> StmtWhile(st, s)
      [] s.s = "For"      -> StmtFor(st, s)
      [] s.s = "RepeatUntil" -> StmtRepeatUntil(st, s)
      [] s.s = "Case"     -> StmtCase(st, s)
      [] s.s = "FunctionDeclaration"  -> StmtFunctionDeclaration(st, s)
      [] s.s = "ProcedureDeclaration" -> StmtProcedureDeclaration(st, s)
      [] s.s = "Call"      -> StmtCall(st, s)
      [] s.s = "Return"    -> StmtReturn(st, s)
      [] s.s = "OpenFile"  -> StmtOpenFile(st, s)
      [] s.s = "CloseFile" -> StmtCloseFile(st, s)
      [] s.s = "WriteFile" -> StmtWriteFile(st, s)
      [] s.s = "ReadFile"  -> StmtReadFile(st, s)
      [] s.s = "Seek"      -> StmtSeek(st, s)
      [] s.s = "GetRecord" -> StmtGetRecord(st, s)
      [] s.s = "PutRecord" -> StmtPutRecord(st, s)

\* WasmInterpreter::evaluate_stmt; `events` gets the statement when it
\* starts and, when it returns, its result and the names of the open files
evaluate_stmt(st, s) ==
    Bind(StmtArm(Event(st, [ev |-> "Stmt", stmt |-> s]), s), LAMBDA r :
    [r EXCEPT !.st = Event(@, [ev |-> "StmtEnd", stmt |-> s, ok |-> r.ok,
                               msg |-> r.msg, files |-> DOMAIN r.st.open_files])])

-----------------------------------------------------------------------------
(* The embedded engine (lib.rs: PseudocodeEngine)                           *)

\* the interpreter owned by the engine, as the record the evaluator works on
Interp ==
    [variables |-> variables, variables_type |-> variables_type,
     functions |-> functions, procedures |-> procedures, constants |-> constants,
     open_files |-> open_files, virtual_files |-> virtual_files,
     output_buffer |-> output_buffer, input_queue |-> input_queue,
     call_stack |-> call_stack, context_stack |-> context_stack,
     events |-> << >>]

SetInterp(st) ==
    /\ variables' = st.variables
    /\ variables_type' = st.variables_type
    /\ functions' = st.functions
    /\ procedures' = st.procedures
    /\ constants' = st.constants
    /\ open_files' = st.open_files
    /\ virtual_files' = st.virtual_files
    /\ output_buffer' = st.output_buffer
    /\ input_queue' = st.input_queue
    /\ call_stack' = st.call_stack
    /\ context_stack' = st.context_stack

\* WasmInterpreter::new / PseudocodeEngine::new
Init ==
    /\ variables = EmptyMap
    /\ variables_type = EmptyMap
    /\ functions = EmptyMap
    /\ procedures = EmptyMap
    /\ constants = {}
    /\ open_files = EmptyMap
    /\ virtual_files = EmptyMap
    /\ output_buffer = << >>
    /\ input_queue = << >>
    /\ call_stack = << >>
    /\ context_stack = << >>
    /\ parsed_statements = << >>
    /\ current_statement_index = 0
    /\ last = [op |-> "new", calls |-> 0, ran |-> << >>, errors |-> << >>,
               output |-> << >>]

\* Parser::parse_program as the engine sees it: a statement list or an error
Parsed(stmts) == [ok |-> TRUE, stmts |-> stmts]

ParseError == [ok |-> FALSE, stmts |-> << >>]

\* one top-level evaluate_stmt call, with what it started from and left
Ran(stmt, before, r) ==
    [stmt |-> stmt, ok |-> r.ok, msg |-> r.msg, before |-> before, after |-> r.st]

\* `for stmt in &statements { if let Err(e) = evaluate_stmt(stmt) { errors.push(..) } }`
\* a statement that panics ends the loop and the call
RECURSIVE ExecuteLoop(_, _, _, _)
ExecuteLoop(st, stmts, j, ran) ==
    IF j > Len(stmts) THEN [st |-> st, ran |-> ran]
    ELSE Bind([st EXCEPT !.events = << >>], LAMBDA before :
         Bind(evaluate_stmt(before, stmts[j]), LAMBDA r :
         IF ~r.ok /\ r.msg \in { Panic, CapacityOverflow }
         THEN [st |-> r.st, ran |-> Append(ran, Ran(stmts[j], before, r))]
         ELSE ExecuteLoop(r.st, stmts, j + 1, Append(ran, Ran(stmts[j], before, r)))))

\* the messages of the failed statements, in order
RECURSIVE ErrorsOf(_, _)
ErrorsOf(ran, j) ==
    IF j > Len(ran) THEN << >>
    ELSE (IF ran[j].ok THEN << >> ELSE << ran[j].msg >>) \o ErrorsOf(ran, j + 1)

\* no handle and no virtual file outgrows the model
WithinBounds(st) ==
    /\ \A f \in DOMAIN st.open_files : Len(st.open_files[f].content) <= MaxContent
    /\ \A f \in DOMAIN st.virtual_files : Len(st.virtual_files[f]) <= MaxContent

\* PseudocodeEngine::execute
Execute(code) ==
    /\ last.calls < MaxCalls
    /\ IF ~code.ok
       THEN /\ SetInterp([Interp EXCEPT !.output_buffer = << >>])
            /\ last' = [op |-> "execute", calls |-> last.calls + 1, ran |-> << >>,
                        errors |-> << "parse error" >>, output |-> << >>]
       ELSE \E run \in { ExecuteLoop([Interp EXCEPT !.output_buffer = << >>],
                                      code.stmts, 1, << >>) } :
                /\ WithinBounds(run.st)
                /\ SetInterp(run.st)
                /\ last' = [op |-> "execute", calls |-> last.calls + 1, ran |-> run.ran,
                            errors |-> ErrorsOf(run.ran, 1),
                            output |-> run.st.output_buffer]
    /\ UNCHANGED << parsed_statements, current_statement_index >>

\* PseudocodeEngine::parse_for_execution
ParseForExecution(code) ==
    /\ last.calls < MaxCalls
    /\ SetInterp([Interp EXCEPT !.output_buffer = << >>])
    /\ parsed_statements' = IF code.ok THEN code.stmts ELSE << >>
    /\ current_statement_index' = 0
    /\ last' = [op |-> "parse_for_execution", calls |-> last.calls + 1, ran |-> << >>,
                errors |-> IF code.ok THEN << >> ELSE << "parse error" >>,
                output |-> << >>]

\* PseudocodeEngine::has_more_statements
has_more_statements == current_statement_index < Len(parsed_statements)

\* NewOutput that hands back the whole buffer, not what was added to it
NewOutput_WholeBuffer(output_before, output_after) ==
    IF Len(output_after) > Len(output_before) THEN output_after ELSE << >>

\* the part of the output buffer that the statement added
NewOutput(output_before, output_after) ==
    IF Len(output_after) > Len(output_before)
    THEN SubSeq(output_after, Len(output_before) + 1, Len(output_after))
    ELSE << >>

\* execute_next_statement that moves on only after a statement that succeeded
ExecuteNextStatement_RetryFailed ==
    IF current_statement_index >= Len(parsed_statements)
    THEN /\ last' = [op |-> "execute_next_statement", calls |-> last.calls,
                     ran |-> << >>, errors |-> << >>, output |-> << >>]
         /\ UNCHANGED << variables, variables_type, functions, procedures, constants,
                         open_files, virtual_files, output_buffer, input_queue,
                         call_stack, context_stack, parsed_statements,
                         current_statement_index >>
    ELSE \E r \in { evaluate_stmt(Interp, parsed_statements[current_statement_index + 1]) } :
             /\ WithinBounds(r.st)
             /\ SetInterp(r.st)
             /\ current_statement_index' =
                    IF r.ok THEN current_statement_index + 1 ELSE current_statement_index
             /\ last' = [op |-> "execute_next_statement", calls |-> last.calls,
                         ran |-> << Ran(parsed_statements[current_statement_index + 1],
                                        Interp, r) >>,
                         errors |-> IF r.ok THEN << >> ELSE << r.msg >>,
                         output |-> NewOutput(output_buffer, r.st.output_buffer)]
             /\ UNCHANGED parsed_statements

\* PseudocodeEngine::execute_next_statement
ExecuteNextStatement ==
    IF current_statement_index >= Len(parsed_statements)
    THEN /\ last' = [op |-> "execute_next_statement", calls |-> last.calls,
                     ran |-> << >>, errors |-> << >>, output |-> << >>]
         /\ UNCHANGED << variables, variables_type, functions, procedures, constants,
                         open_files, virtual_files, output_buffer, input_queue,
                         call_stack, context_stack, parsed_statements,
                         current_statement_index >>
    ELSE \E r \in { evaluate_stmt(Interp, parsed_statements[current_statement_index + 1]) } :
             /\ WithinBounds(r.st)
             /\ SetInterp(r.st)
             /\ current_statement_index' = current_statement_index + 1
             /\ last' = [op |-> "execute_next_statement", calls |-> last.calls,
                         ran |-> << Ran(parsed_statements[current_statement_index + 1],
                                        Interp, r) >>,
                         errors |-> IF r.ok THEN << >> ELSE << r.msg >>,
                         output |-> NewOutput(output_buffer, r.st.output_buffer)]
             /\ UNCHANGED parsed_statements

\* PseudocodeEngine::set_virtual_file
SetVirtualFile(filename, content) ==
    /\ last.calls < MaxCalls
    /\ virtual_files' = Insert(virtual_files, filename, content)
    /\ last' = [op |-> "set_virtual_file", calls |-> last.calls + 1, ran |-> << >>,
                errors |-> << >>, output |-> << >>]
    /\ UNCHANGED << variables, variables_type, functions, procedures, constants,
                    open_files, output_buffer, input_queue, call_stack,
                    context_stack, parsed_statements, current_statement_index >>

\* WasmInterpreter::get_virtual_file: Option<&String>
get_virtual_file(st, filename) ==
    IF filename \in DOMAIN st.virtual_files THEN << st.virtual_files[filename] >>
    ELSE << >>

-----------------------------------------------------------------------------
(* The programs the engine is given                                         *)

\* FUNCTION abs(x : INTEGER) RETURNS INTEGER
\*   IF x < 0 THEN RETURN -x ENDIF
\*   RETURN x
\* ENDFUNCTION
AbsDeclaration ==
    FunctionDeclaration("abs", << Param("x", TInteger) >>, TInteger,
        << IfThen(Bin(Var("x"), "LessThan", Num(0)),
                  << Return(<< Un("Negate", Var("x")) >>) >>),
           Return(<< Var("x") >>) >>)

\* PROCEDURE p(n : INTEGER): declares a local, assigns it and a global
ProcP ==
    ProcedureDeclaration("p", << Param("n", TInteger) >>,
        << Declare("t", TInteger), Assign("t", Var("n")), Assign("x", Var("n")) >>)

\* PROCEDURE q(n : INTEGER): fails on its second statement (zz is unknown)
ProcQ ==
    ProcedureDeclaration("q", << Param("n", TInteger) >>,
        << Declare("t", TInteger), Assign("t", Var("zz")) >>)

FileF == Str(<< "f" >>)

CorePrograms ==
    { ParseError,
      \* a statement that fails between two that do not
      Parsed(<< Declare("x", TInteger), Assign("x", Var("zz")), Output(<< Var("x") >>) >>),
      Parsed(<< AbsDeclaration,
                Output(<< FunctionCall("abs", << Num(3) >>) >>),
                Output(<< FunctionCall("abs", << Un("Negate", Num(7)) >>) >>) >>),
      Parsed(<< ProcP, Call("p", << Num(1) >>) >>),
      Parsed(<< ProcQ, Call("q", << Num(5) >>) >>),
      Parsed(<< Constant("PI", << Num(3) >>), Assign("PI", Num(4)) >>),
      Parsed(<< Declare("x", TInteger), Constant("x", << >>) >>),
      Parsed(<< Assign("x", Num(2)) >>),
      Parsed(<< Assign("u", Num(1)) >>),
      Parsed(<< Declare("i", TString) >>),
      Parsed(<< For("i", Num(1), Num(2), << >>, << Assign("x", Var("i")) >>) >>),
      Parsed(<< For("i", Num(2), Num(1), << Un("Negate", Num(1)) >>,
                    << Assign("t", Var("zz")) >>) >>) }

FilePrograms ==
    { Parsed(<< OpenFile(FileF, "WRITE") >>),
      Parsed(<< OpenFile(FileF, "READ") >>),
      Parsed(<< OpenFile(FileF, "RANDOM") >>),
      Parsed(<< CloseFile(FileF) >>),
      Parsed(<< WriteFile(FileF, << Str(<< "n" >>), Num(1) >>) >>),
      Parsed(<< OpenFile(FileF, "WRITE"), WriteFile(FileF, << Str(<< "n" >>) >>),
                CloseFile(FileF) >>),
      \* a CLOSEFILE before any OPENFILE, and a second OPENFILE on a used handle
      Parsed(<< CloseFile(FileF), OpenFile(FileF, "WRITE"),
                WriteFile(FileF, << Str(<< "n" >>) >>), OpenFile(FileF, "READ") >>),
      \* WRITEFILE on a file that is not open, on a READ handle, and with an
      \* expression that fails after one that does not
      Parsed(<< WriteFile(FileF, << Str(<< "a" >>) >>),
                OpenFile(FileF, "READ"), WriteFile(FileF, << Str(<< "a" >>) >>),
                CloseFile(FileF), OpenFile(FileF, "WRITE"),
                WriteFile(FileF, << Str(<< "a" >>), Var("zz") >>) >>) }

Programs == CorePrograms \cup FilePrograms

\* contents the host stores with set_virtual_file
HostContents == { << "o" >>, << "o", "l", "d" >> }

Next ==
    \/ \E code \in Programs : Execute(code)
    \/ \E code \in Programs : ParseForExecution(code)
    \/ ExecuteNextStatement
    \/ \E content \in HostContents : SetVirtualFile(<< "f" >>, content)

Spec == Init /\ [][Next]_vars

-----------------------------------------------------------------------------
(* Array programs: declare an array, assign one element, read it back      *)

\* the parser reads -n as the negation of the literal n
NumLit(n) == IF n < 0 THEN Un("Negate", Num(-n)) ELSE Num(n)

NumLits(ns) == [d \in DOMAIN ns |-> NumLit(ns[d])]

\* DECLARE a : ARRAY[...] OF INTEGER ; a[indices] <- v ; OUTPUT a[indices]
ArrayProgram(dimensions, indices, v) ==
    Parsed(<< Declare("a", TArray(dimensions, TInteger)),
              AssignAt("a", NumLits(indices), NumLit(v)),
              Output(<< ArrayAccess("a", NumLits(indices)) >>) >>)

ArrayValues == { -3, 0, 7 }

\* ARRAY[lo:hi] with every index from below lo to above hi, and with one
\* index too many
OneDimPrograms ==
    { ArrayProgram(<< << NumLit(lo), NumLit(lo + span) >> >>, << k >>, v) :
          lo \in 0..MaxLo, span \in 0..MaxSpan,
          k \in -1..(MaxLo + MaxSpan + 1), v \in ArrayValues }
    \cup
    { ArrayProgram(<< << NumLit(lo), NumLit(lo + 1) >> >>, << k, k >>, 7) :
          lo \in 0..MaxLo, k \in 0..2 }

TwoDim == << << Num(1), NumLit(MaxRow) >>, << Num(1), NumLit(MaxCol) >> >>

\* ARRAY[1:MaxRow, 1:MaxCol] with every pair of indices from one below to one
\* above the range, and with one index missing or one too many
MultiDimPrograms ==
    { ArrayProgram(TwoDim, << i, j >>, 7) :
          i \in 0..(MaxRow + 1), j \in 0..(MaxCol + 1) }
    \cup
    { ArrayProgram(TwoDim, << i >>, 7) : i \in 1..MaxRow }
    \cup
    { ArrayProgram(TwoDim, << i, 1, 1 >>, 7) : i \in 1..MaxRow }

\* PseudocodeEngine::execute on an array program
ExecuteArrayProgram(code) == last.calls < MaxArrayCalls /\ Execute(code)

\* DECLARE a : ARRAY[0:65535, 0:hi] OF INTEGER, of 2^31 and of 2^32 elements
WideDimPrograms ==
    { Parsed(<< Declare("a", TArray(<< << Num(0), Num(65535) >>, << Num(0), Num(hi) >> >>,
                                    TInteger)) >>) : hi \in { 32767, 65535 } }

NextArrays ==
    \/ \E code \in OneDimPrograms : ExecuteArrayProgram(code)
    \/ \E code \in MultiDimPrograms : ExecuteArrayProgram(code)
    \/ \E code \in WideDimPrograms : ExecuteArrayProgram(code)

SpecArrays == Init /\ [][NextArrays]_vars

-----------------------------------------------------------------------------
(* Line programs: read a text file line by line and ask for its end         *)

\* b <- EOF("f")
EofAssign == Assign("b", FunctionCall("EOF", << FileF >>))

\* DECLARE line : STRING ; OPENFILE "f" FOR mode ; READFILE "f", line (reads
\* times) ; b <- EOF("f") ; CLOSEFILE "f"
ReadProgram(mode, reads) ==
    Parsed(<< Declare("line", TString), OpenFile(FileF, mode) >>
           \o [i \in 1..reads |-> ReadFile(FileF, "line")]
           \o << EofAssign, CloseFile(FileF) >>)

\* OPENFILE "f" FOR WRITE ; WRITEFILE "f", "n" (writes times) ; b <- EOF("f") ;
\* CLOSEFILE "f"
WriteProgram(writes) ==
    Parsed(<< OpenFile(FileF, "WRITE") >>
           \o [i \in 1..writes |-> WriteFile(FileF, << Str(<< "n" >>) >>)]
           \o << EofAssign, CloseFile(FileF) >>)

LinePrograms ==
    { ReadProgram(mode, reads) : mode \in { "READ", "RANDOM" }, reads \in 0..2 }
    \cup { WriteProgram(writes) : writes \in 0..1 }
    \cup
    { \* EOF of a file that is not open
      Parsed(<< EofAssign >>),
      \* EOF before OPENFILE, before and after the only line was read, and on
      \* a WRITE handle
      Parsed(<< Declare("line", TString), EofAssign, OpenFile(FileF, "READ"), EofAssign,
                ReadFile(FileF, "line"), EofAssign, CloseFile(FileF),
                OpenFile(FileF, "WRITE"), EofAssign, CloseFile(FileF) >>) }

\* the text files the host stores: empty, one line, a line and a half, and
\* a line that ends with "\r\n"
HostLines == { << >>, << "a", "\n" >>, << "a", "\n", "b" >>, << "a", "\r", "\n", "b" >> }

NextLines ==
    \/ \E code \in LinePrograms : Execute(code)
    \/ \E content \in HostLines : SetVirtualFile(<< "f" >>, content)

SpecLines == Init /\ [][NextLines]_vars

-----------------------------------------------------------------------------
(* Record programs: put a record in a RANDOM file and get it back           *)

Repeat(c, n) == [i \in 1..n |-> c]

\* U+00E9 in UTF-8
EAcute == << "C3", "A9" >>

FileR == Str(<< "r" >>)

\* the strings put: empty, short, exactly one record, longer than a record,
\* and three with a two-byte character, one of them across the 256th byte
RecordStrings ==
    { << >>, << "a", "b" >>, Repeat("a", RecordSize), Repeat("a", RecordSize + 1),
      EAcute \o << "b" >>, Repeat("a", RecordSize - 2) \o EAcute,
      Repeat("a", RecordSize - 1) \o EAcute }

\* DECLARE rec : STRING ; rec <- v ; OPENFILE "r" FOR RANDOM ; PUTRECORD "r", rec
\* SEEK "r", 0 ; GETRECORD "r", rec2 ; CLOSEFILE "r"
RecordProgram(v) ==
    Parsed(<< Declare("rec", TString), Assign("rec", Str(v)),
              OpenFile(FileR, "RANDOM"), PutRecord(FileR, "rec"),
              Seek(FileR, Num(0)), GetRecord(FileR, "rec2"), CloseFile(FileR) >>)

RecordPrograms ==
    { RecordProgram(v) : v \in RecordStrings }
    \cup
    { \* an INTEGER record
      Parsed(<< Declare("n", TInteger), Assign("n", Num(42)),
                OpenFile(FileR, "RANDOM"), PutRecord(FileR, "n"),
                Seek(FileR, Num(0)), GetRecord(FileR, "rec2"), CloseFile(FileR) >>),
      \* two records one after the other, read back in order
      Parsed(<< Declare("rec", TString), Assign("rec", Str(<< "a" >>)),
                Declare("n", TInteger), Assign("n", Num(7)),
                OpenFile(FileR, "RANDOM"), PutRecord(FileR, "rec"), PutRecord(FileR, "n"),
                Seek(FileR, Num(0)), GetRecord(FileR, "rec2"), GetRecord(FileR, "rec3"),
                CloseFile(FileR) >>),
      \* a negative address, and a GETRECORD at the end of the file
      Parsed(<< Declare("rec", TString), Assign("rec", Str(<< "a" >>)),
                OpenFile(FileR, "RANDOM"), PutRecord(FileR, "rec"),
                Seek(FileR, Un("Negate", Num(1))), GetRecord(FileR, "rec2"),
                CloseFile(FileR) >>) }

\* PseudocodeEngine::execute on a program that parses, as one of at most
\* max_calls engine calls
ExecuteProgram(code, max_calls) ==
    /\ last.calls < max_calls
    /\ \E run \in { ExecuteLoop([Interp EXCEPT !.output_buffer = << >>],
                                 code.stmts, 1, << >>) } :
           /\ SetInterp(run.st)
           /\ last' = [op |-> "execute", calls |-> last.calls + 1, ran |-> run.ran,
                       errors |-> ErrorsOf(run.ran, 1),
                       output |-> run.st.output_buffer]
    /\ UNCHANGED << parsed_statements, current_statement_index >>

\* PseudocodeEngine::execute on a record program
ExecuteRecordProgram(code) == ExecuteProgram(code, MaxRecordCalls)

NextRecords == \E code \in RecordPrograms : ExecuteRecordProgram(code)

SpecRecords == Init /\ [][NextRecords]_vars

-----------------------------------------------------------------------------
(* Input programs: the host scripts the input, the program reads it         *)

\* PseudocodeEngine::add_input
AddInput(input) ==
    /\ last.calls < MaxInputCalls
    /\ input_queue' = Append(input_queue, input)
    /\ last' = [op |-> "add_input", calls |-> last.calls + 1, ran |-> << >>,
                errors |-> << >>, output |-> << >>]
    /\ UNCHANGED << variables, variables_type, functions, procedures, constants,
                    open_files, virtual_files, output_buffer, call_stack,
                    context_stack, parsed_statements, current_statement_index >>

\* PseudocodeEngine::clear_inputs
ClearInputs ==
    /\ last.calls < MaxInputCalls
    /\ input_queue' = << >>
    /\ last' = [op |-> "clear_inputs", calls |-> last.calls + 1, ran |-> << >>,
                errors |-> << >>, output |-> << >>]
    /\ UNCHANGED << variables, variables_type, functions, procedures, constants,
                    open_files, virtual_files, output_buffer, call_stack,
                    context_stack, parsed_statements, current_statement_index >>

\* the lines the host supplies
InputLines == { << "a" >>, << "b" >>, << " ", "7", " " >> }

InputPrograms ==
    { Parsed(<< Declare("s", TString), Input("s"), Output(<< Var("s") >>) >>),
      Parsed(<< Declare("s", TString), Declare("t", TString), Input("s"), Input("t") >>),
      Parsed(<< Declare("n", TInteger), Input("n") >>),
      \* INPUT into a variable that was never declared
      Parsed(<< Input("u") >>) }

\* PseudocodeEngine::execute on an input program
ExecuteInputProgram(code) == ExecuteProgram(code, MaxInputCalls)

NextInput ==
    \/ \E input \in InputLines : AddInput(input)
    \/ ClearInputs
    \/ \E code \in InputPrograms : ExecuteInputProgram(code)

SpecInput == Init /\ [][NextInput]_vars

-----------------------------------------------------------------------------
(* Loop programs: a FOR loop that prints its counter                        *)

\* FOR i <- start TO end STEP step : OUTPUT i [; i <- 9] : NEXT i
LoopProgram(start, end, step, body_assigns) ==
    Parsed(<< For("i", NumLit(start), NumLit(end), << NumLit(step) >>,
                  << Output(<< Var("i") >> ) >>
                  \o (IF body_assigns THEN << Assign("i", Num(9)) >> ELSE << >>)) >>)

LoopSteps == { -2, -1, 0, 1, 2 }

LoopPrograms ==
    { LoopProgram(start, end, step, body_assigns) :
          start \in 0..MaxEnd, end \in 0..MaxEnd, step \in LoopSteps,
          body_assigns \in BOOLEAN }
    \cup
    \* a step that takes the counter past the largest i32
    { LoopProgram(2, 2, I32Max, FALSE) }

\* PseudocodeEngine::execute on a loop program
ExecuteLoopProgram(code) == ExecuteProgram(code, MaxLoopCalls)

NextLoops == \E code \in LoopPrograms : ExecuteLoopProgram(code)

SpecLoops == Init /\ [][NextLoops]_vars

-----------------------------------------------------------------------------
(* CASE programs: each branch prints its own letter                         *)

\* the labels: two integers and a string that prints like the first
CaseLabels == { Num(1), Num(2), Str(<< "1" >>) }

\* the letter branch j prints
BranchLetter == << "A", "B", "C", "D" >>

\* v1 : OUTPUT "A"   v2 : OUTPUT "B"  ...
CaseBranches(labels) ==
    [j \in DOMAIN labels |-> CaseBranch(labels[j], << Output(<< Str(<< BranchLetter[j] >>) >>) >>)]

\* x <- v ; CASE OF x  labels  [OTHERWISE : OUTPUT "O"]  ENDCASE
CaseProgram(v, labels, has_otherwise) ==
    Parsed(<< Assign("x", v),
              Case(Var("x"), CaseBranches(labels),
                   IF has_otherwise THEN << << Output(<< Str(<< "O" >>) >>) >> >>
                   ELSE << >>) >>)

LabelLists == UNION { [1..n -> CaseLabels] : n \in 0..MaxBranches }

CasePrograms ==
    { CaseProgram(v, labels, has_otherwise) :
          v \in CaseLabels \cup { Num(3) }, labels \in LabelLists,
          has_otherwise \in BOOLEAN }

\* PseudocodeEngine::execute on a CASE program
ExecuteCaseProgram(code) == ExecuteProgram(code, MaxCaseCalls)

NextCase == \E code \in CasePrograms : ExecuteCaseProgram(code)

SpecCase == Init /\ [][NextCase]_vars

-----------------------------------------------------------------------------
(* Pointer programs: take a pointer to v, assign through it, assign to v    *)

\* OUTPUT p^
OutputDeref == Output(<< PointerDeref(Var("p")) >>)

\* DECLARE v : INTEGER ; v <- a ; p <- ^v ; p^ <- b ; OUTPUT p^ ; OUTPUT v ;
\* v <- c ; OUTPUT p^ ; OUTPUT v
PointerProgram(a, b, c) ==
    Parsed(<< Declare("v", TInteger), Assign("v", Num(a)),
              Assign("p", PointerRef(Var("v"))),
              AssignDeref("p", Num(b)), OutputDeref, Output(<< Var("v") >>),
              Assign("v", Num(c)), OutputDeref, Output(<< Var("v") >>) >>)

PointerPrograms ==
    { PointerProgram(a, b, c) : a \in 0..MaxPointee, b \in 0..MaxPointee,
                                c \in 0..MaxPointee }
    \cup
    { \* a pointer to a variable that was never declared, and p^ without p
      Parsed(<< Assign("p", PointerRef(Var("w"))), AssignDeref("p", Num(1)),
                OutputDeref >>),
      \* p^ on a variable that is not a pointer
      Parsed(<< Assign("p", Num(1)), AssignDeref("p", Num(2)), OutputDeref >>) }

\* PseudocodeEngine::execute on a pointer program
ExecutePointerProgram(code) == ExecuteProgram(code, MaxPointerCalls)

NextPointers == \E code \in PointerPrograms : ExecutePointerProgram(code)

SpecPointers == Init /\ [][NextPointers]_vars

-----------------------------------------------------------------------------
(* Declaration programs: functions and procedures declared twice            *)

\* FUNCTION abs(x : INTEGER) RETURNS INTEGER with another body: RETURN 0
AbsOther ==
    FunctionDeclaration("abs", << Param("x", TInteger) >>, TInteger,
        << Return(<< Num(0) >>) >>)

\* PROCEDURE p(n : INTEGER) with another body: x <- 0
ProcPOther ==
    ProcedureDeclaration("p", << Param("n", TInteger) >>, << Assign("x", Num(0)) >>)

\* FUNCTION p() RETURNS INTEGER: a function of the name of a procedure
FuncP == FunctionDeclaration("p", << >>, TInteger, << Return(<< Num(1) >>) >>)

DeclarationPrograms ==
    { Parsed(<< AbsDeclaration, Output(<< FunctionCall("abs", << Num(3) >>) >>) >>),
      Parsed(<< AbsOther, Output(<< FunctionCall("abs", << Num(3) >>) >>) >>),
      Parsed(<< AbsDeclaration, AbsOther,
                Output(<< FunctionCall("abs", << Un("Negate", Num(7)) >>) >>) >>),
      Parsed(<< ProcP, Call("p", << Num(1) >>) >>),
      Parsed(<< ProcPOther, Call("p", << Num(1) >>) >>),
      Parsed(<< ProcP, ProcPOther, FuncP, Call("p", << Num(1) >>),
                Output(<< FunctionCall("p", << >>) >>) >>),
      \* a call that fails inside the procedure
      Parsed(<< ProcQ, Call("q", << Num(5) >>), ProcQ >>) }

NextDeclarations ==
    \/ \E code \in DeclarationPrograms : Execute(code)
    \/ \E code \in DeclarationPrograms : ParseForExecution(code)
    \/ ExecuteNextStatement

SpecDeclarations == Init /\ [][NextDeclarations]_vars

-----------------------------------------------------------------------------
(* Parser: expressions by precedence climbing                               *)

\* Token::Identifier(name), Token::Keyword(name) and the tokens without data
TIdentifier(name) == [t |-> "Identifier", name |-> name]

TKeyword(name) == [t |-> "Keyword", name |-> name]

Tok(t) == [t |-> t]

\* Parser { tokens, pos }
NewParser(tokens) == [tokens |-> tokens, pos |-> 0]

\* Parser::current_token: the token at pos, the last token (EOF) past the end
current_token(p) ==
    IF p.pos >= Len(p.tokens) THEN p.tokens[Len(p.tokens)] ELSE p.tokens[p.pos + 1]

\* Parser::advance
advance(p) == [p EXCEPT !.pos = @ + 1]

\* Result<Expr, String> with the parser left behind
POk(e, p) == [ok |-> TRUE, e |-> e, p |-> p]

PErr(p) == [ok |-> FALSE, e |-> Num(0), p |-> p]

\* BinaryOp::precedence with Or and And on one level
precedence_AndAsOr(op) ==
    CASE op \in {"Or", "And"} -> 1
      [] op \in {"Equals", "NotEquals", "LessThan", "GreaterThan",
                 "LessThanOrEqual", "GreaterThanOrEqual"} -> 3
      [] op \in {"Add", "Subtract"} -> 4
      [] op \in {"Multiply", "Divide", "Modulus"} -> 5

\* BinaryOp::precedence
precedence(op) ==
    CASE op = "Or" -> 1
      [] op = "And" -> 2
      [] op \in {"Equals", "NotEquals", "LessThan", "GreaterThan",
                 "LessThanOrEqual", "GreaterThanOrEqual"} -> 3
      [] op \in {"Add", "Subtract"} -> 4
      [] op \in {"Multiply", "Divide", "Modulus"} -> 5

\* Parser::peek_binary_op: Option<BinaryOp> as a sequence of at most one
peek_binary_op(p) ==
    CASE current_token(p).t = "Plus" -> << "Add" >>
      [] current_token(p).t = "Minus" -> << "Subtract" >>
      [] current_token(p).t \in {"Multiply", "Divide", "Modulus", "Equals", "NotEquals",
                                 "LessThan", "GreaterThan", "LessThanOrEqual",
                                 "GreaterThanOrEqual", "And", "Or"}
           -> << current_token(p).t >>
      [] OTHER -> << >>

RECURSIVE parse_expression(_), parse_unary(_), parse_primary(_),
          parse_binary_expression(_, _), BinaryLoop(_, _, _), CallArgs(_, _),
          parse_function_call_args(_), parse_function_call(_, _)

\* Parser::parse_expression
parse_expression(p) ==
    IF current_token(p).t = "Newline" THEN parse_expression(advance(p))
    ELSE parse_binary_expression(p, 0)

\* Parser::parse_function_call_args
CallArgs(p, args) ==
    IF current_token(p).t # "Comma" THEN [ok |-> TRUE, args |-> args, p |-> p]
    ELSE Bind(parse_expression(advance(p)), LAMBDA r :
         IF ~r.ok THEN [ok |-> FALSE, args |-> args, p |-> r.p]
         ELSE CallArgs(r.p, Append(args, r.e)))

parse_function_call_args(p) ==
    IF current_token(p).t = "RightParen" THEN [ok |-> TRUE, args |-> << >>, p |-> p]
    ELSE Bind(parse_expression(p), LAMBDA r :
         IF ~r.ok THEN [ok |-> FALSE, args |-> << >>, p |-> r.p]
         ELSE CallArgs(r.p, << r.e >>))

\* Parser::parse_function_call; p is at the "("
parse_function_call(p, name) ==
    Bind(parse_function_call_args(advance(p)), LAMBDA a :
    IF ~a.ok THEN PErr(a.p)
    ELSE IF current_token(a.p).t = "RightParen"
         THEN POk(FunctionCall(name, a.args), advance(a.p))
    ELSE PErr(a.p))

\* Parser::parse_primary: numbers, names, calls and parenthesised expressions
parse_primary(p) ==
    CASE current_token(p).t = "Number" -> POk(Num(current_token(p).n), advance(p))
      [] current_token(p).t \in {"Identifier", "Keyword"} ->
            IF current_token(advance(p)).t = "LeftParen"
            THEN parse_function_call(advance(p), current_token(p).name)
            ELSE POk(Var(current_token(p).name), advance(p))
      [] current_token(p).t = "LeftParen" ->
            Bind(parse_expression(advance(p)), LAMBDA r :
            IF ~r.ok THEN r
            ELSE IF current_token(r.p).t = "RightParen" THEN POk(r.e, advance(r.p))
            ELSE PErr(r.p))
      [] OTHER -> PErr(p)

\* Parser::parse_unary
parse_unary(p) ==
    CASE current_token(p).t = "Not" ->
            Bind(parse_unary(advance(p)), LAMBDA r :
            IF r.ok THEN POk(Un("Not", r.e), r.p) ELSE r)
      [] current_token(p).t = "Minus" ->
            Bind(parse_unary(advance(p)), LAMBDA r :
            IF r.ok THEN POk(Un("Negate", r.e), r.p) ELSE r)
      [] OTHER -> parse_primary(p)

\* `while let Some(op) = self.peek_binary_op() { .. }` of parse_binary_expression
BinaryLoop(p, left, min_prec) ==
    Bind(peek_binary_op(p), LAMBDA op :
    IF op = << >> THEN POk(left, p)
    ELSE IF precedence(op[1]) < min_prec THEN POk(left, p)
    ELSE Bind(parse_binary_expression(advance(p), precedence(op[1]) + 1), LAMBDA r :
         IF ~r.ok THEN r ELSE BinaryLoop(r.p, Bin(left, op[1], r.e), min_prec)))

\* Parser::parse_binary_expression
parse_binary_expression(p, min_prec) ==
    Bind(parse_unary(p), LAMBDA l :
    IF ~l.ok THEN l ELSE BinaryLoop(l.p, l.e, min_prec))

\* `while matches!(self.current_token(), Token::Comma) { .. }` of parse_output
RECURSIVE OutputExprs(_, _)
OutputExprs(p, exprs) ==
    IF current_token(p).t # "Comma" THEN [ok |-> TRUE, stmt |-> Output(exprs), p |-> p]
    ELSE Bind(parse_expression(advance(p)), LAMBDA r :
         IF ~r.ok THEN [ok |-> FALSE, stmt |-> Output(exprs), p |-> r.p]
         ELSE OutputExprs(r.p, Append(exprs, r.e)))

\* Parser::parse_output
parse_output(p) ==
    IF current_token(p) # TKeyword("OUTPUT")
    THEN [ok |-> FALSE, stmt |-> Output(<< >>), p |-> p]
    ELSE Bind(parse_expression(advance(p)), LAMBDA r :
         IF ~r.ok THEN [ok |-> FALSE, stmt |-> Output(<< >>), p |-> r.p]
         ELSE OutputExprs(r.p, << r.e >>))

\* Result<Stmt, String> with the parser left behind
SOk(stmt, p) == [ok |-> TRUE, stmt |-> stmt, p |-> p]

SErr(p) == [ok |-> FALSE, stmt |-> Output(<< >>), p |-> p]

\* A loop whose iteration leaves the parser where it found it repeats that
\* iteration for ever, the parser being all the loop reads: the call never
\* returns.  Spins stands for that outcome and is handed up like an error.
Spins(p) == [ok |-> FALSE, stmt |-> Output(<< >>), p |-> p, spins |-> TRUE]

IsSpin(r) == "spins" \in DOMAIN r

\* the `?` on a result of another shape
Fail(r) == IF IsSpin(r) THEN Spins(r.p) ELSE SErr(r.p)

ParseSpins == [ok |-> FALSE, stmts |-> << >>, spins |-> TRUE]

\* the last arm of parse_statement taking what is no statement for one
ExpectedStatement_Accepted(p) == SOk(Break, p)

\* the last arm of parse_statement: Err("Expected statement")
ExpectedStatement(p) == SErr(p)

RECURSIVE parse_statement(_), parse_declare(_), parse_type_declaration(_),
          parse_if(_), parse_while(_), parse_for(_), parse_repeat_until(_),
          parse_case(_), parse_function_declaration(_),
          parse_procedure_declaration(_), parse_call(_), parse_input(_),
          parse_return(_), parse_assignment(_)

\* Parser::parse_statement, for the statements of the sources of this model
\* (those on files are in none of them)
parse_statement(p) ==
    IF current_token(p).t = "Keyword"
    THEN CASE current_token(p).name = "DECLARE" -> parse_declare(p)
           [] current_token(p).name = "TYPE" -> parse_type_declaration(p)
           [] current_token(p).name = "IF" -> parse_if(p)
           [] current_token(p).name = "WHILE" -> parse_while(p)
           [] current_token(p).name = "FOR" -> parse_for(p)
           [] current_token(p).name = "REPEAT" -> parse_repeat_until(p)
           [] current_token(p).name = "CASE" -> parse_case(p)
           [] current_token(p).name = "FUNCTION" -> parse_function_declaration(p)
           [] current_token(p).name = "PROCEDURE" -> parse_procedure_declaration(p)
           [] current_token(p).name = "CALL" -> parse_call(p)
           [] current_token(p).name = "BREAK" -> SOk(Break, advance(p))
           [] current_token(p).name = "INPUT" -> parse_input(p)
           [] current_token(p).name = "OUTPUT" -> parse_output(p)
           [] current_token(p).name = "RETURN" -> parse_return(p)
           [] OTHER -> SErr(p)
    ELSE IF current_token(p).t = "Identifier" THEN parse_assignment(p)
    ELSE ExpectedStatement(p)

\* Parser::parse_program
RECURSIVE ProgramLoop(_, _)
ProgramLoop(p, statements) ==
    IF current_token(p).t = "EOF" THEN Parsed(statements)
    ELSE IF current_token(p).t = "Newline" THEN ProgramLoop(advance(p), statements)
    ELSE Bind(parse_statement(p), LAMBDA r :
         IF IsSpin(r) \/ (r.ok /\ r.p.pos = p.pos) THEN ParseSpins
         ELSE IF ~r.ok THEN ParseError
         ELSE ProgramLoop(r.p, Append(statements, r.stmt)))

parse_program(tokens) == ProgramLoop(NewParser(tokens), << >>)

-----------------------------------------------------------------------------
(* Sources: OUTPUT of an expression over a, b, c, ... without parentheses   *)

BinaryTokens == {"Or", "And", "Equals", "Minus", "Multiply"}

UnaryTokens == {"Not", "Minus"}

\* the operands, by position
Names == << "a", "b", "c", "d", "e", "f" >>

\* the prefixes of n operands: operand `at` carries the unary operator, the
\* others none (no operand does when at = 0)
PrefixAt(n, at, unary) == [j \in 1..n |-> IF j = at THEN << unary >> ELSE << >>]

Toks(kinds) == [j \in 1..Len(kinds) |-> Tok(kinds[j])]

\* operand j with its prefix, then operator j and what follows it
RECURSIVE ExprTokens(_, _, _)
ExprTokens(ops, pre, j) ==
    Toks(pre[j]) \o << TIdentifier(Names[j]) >>
        \o (IF j > Len(ops) THEN << >>
            ELSE << Tok(ops[j]) >> \o ExprTokens(ops, pre, j + 1))

\* the tokens of `OUTPUT <expression>`
SourceOf(expr_tokens) == << TKeyword("OUTPUT") >> \o expr_tokens \o << Tok("EOF") >>

Sources ==
    UNION { { SourceOf(ExprTokens(ops, PrefixAt(n + 1, at, unary), 1)) :
                ops \in [1..n -> BinaryTokens], at \in 0..(n + 1), unary \in UnaryTokens } :
            n \in 0..MaxOperators }

\* PseudocodeEngine::new, with the source text the host is about to hand over
InitParser ==
    /\ variables = EmptyMap
    /\ variables_type = EmptyMap
    /\ functions = EmptyMap
    /\ procedures = EmptyMap
    /\ constants = {}
    /\ open_files = EmptyMap
    /\ virtual_files = EmptyMap
    /\ output_buffer = << >>
    /\ input_queue = << >>
    /\ call_stack = << >>
    /\ context_stack = << >>
    /\ parsed_statements = << >>
    /\ current_statement_index = 0
    /\ \E source \in Sources :
           last = [op |-> "new", calls |-> 0, ran |-> << >>, errors |-> << >>,
                   output |-> << >>, source |-> source]

\* PseudocodeEngine::parse_for_execution on the source text; `returns` tells
\* whether the parser comes back at all
ParseSourceForExecution ==
    /\ last.op = "new"
    /\ \E code \in { parse_program(last.source) } :
           /\ SetInterp([Interp EXCEPT !.output_buffer = << >>])
           /\ parsed_statements' = IF code.ok THEN code.stmts ELSE << >>
           /\ current_statement_index' = 0
           /\ last' = [op |-> "parse_for_execution", calls |-> last.calls + 1,
                       ran |-> << >>,
                       errors |-> IF code.ok THEN << >> ELSE << "parse error" >>,
                       output |-> << >>, source |-> last.source,
                       returns |-> ~IsSpin(code)]

NextParser ==
    \/ ParseSourceForExecution
    \/ ExecuteNextStatement

SpecParser == InitParser /\ [][NextParser]_vars

-----------------------------------------------------------------------------
(* Block programs: a statement that fails inside nested blocks              *)

OutputText(c) == Output(<< Str(<< c >>) >>)

\* t <- zz: fails, zz is not declared
FailingStmt == Assign("t", Var("zz"))

\* n <- n + 1: every loop body starts with it, the loops end at n = 2
CountUp == Assign("n", Bin(Var("n"), "Add", Num(1)))

\* OUTPUT "a", the failing statement if any, OUTPUT "b"
InnerBody(fails) ==
    << CountUp, OutputText("a") >> \o (IF fails THEN << FailingStmt >> ELSE << >>)
        \o << OutputText("b") >>

BlockKinds == {"If", "Else", "While", "For", "RepeatUntil", "Case", "Otherwise",
               "Procedure", "Function", "BuiltinArgument"}

\* the statement that runs `body` in a block of the kind; the body of a
\* procedure or function is in its declaration, which carries the name `name`
BlockOf(kind, name, body) ==
    CASE kind = "If" -> IfThen(Num(1), body)
      [] kind = "Else" -> If(Num(0), << >>, body)
      [] kind = "While" -> While(Bin(Var("n"), "LessThan", Num(2)), body)
      [] kind = "For" -> For(name, Num(1), Num(2), << >>, body)
      [] kind = "RepeatUntil" -> RepeatUntil(body, Bin(Num(1), "LessThan", Var("n")))
      [] kind = "Case" -> Case(Num(1), << CaseBranch(Num(1), body) >>, << >>)
      [] kind = "Otherwise" -> Case(Num(1), << CaseBranch(Num(2), << >>) >>, << body >>)
      [] kind = "Procedure" -> Call(name, << >>)
      [] kind = "Function" -> Output(<< FunctionCall(name, << >>) >>)
      [] kind = "BuiltinArgument" ->
            Output(<< FunctionCall("MOD", << FunctionCall(name, << >>), Num(2) >>) >>)

\* the declaration a block of the kind needs, if any
DeclarationOf(kind, name, body) ==
    CASE kind = "Procedure" -> << ProcedureDeclaration(name, << >>, body) >>
      [] kind \in {"Function", "BuiltinArgument"} ->
            << FunctionDeclaration(name, << >>, TInteger, body \o << Return(<< Num(1) >>) >>) >>
      [] OTHER -> << >>

\* DECLARE n ; the declarations ; the inner block alone, or inside an outer
\* block that goes on with OUTPUT "c" ; OUTPUT "d"
BlockProgram(outer, inner, fails) ==
    Parsed(<< Declare("n", TInteger) >>
           \o DeclarationOf(inner, "g", InnerBody(fails))
           \o (IF outer = "None" THEN << BlockOf(inner, "g", InnerBody(fails)) >>
               ELSE DeclarationOf(outer, "h",
                                  << CountUp, BlockOf(inner, "g", InnerBody(fails)),
                                     OutputText("c") >>)
                    \o << BlockOf(outer, "h",
                                  << CountUp, BlockOf(inner, "g", InnerBody(fails)),
                                     OutputText("c") >>) >>)
           \o << OutputText("d") >>)

BlockPrograms ==
    { BlockProgram(outer, inner, fails) :
          outer \in BlockKinds \cup {"None"}, inner \in BlockKinds, fails \in BOOLEAN }

ExecuteBlockProgram(code) == ExecuteProgram(code, MaxBlockCalls)

NextBlocks == \E code \in BlockPrograms : ExecuteBlockProgram(code)

SpecBlocks == Init /\ [][NextBlocks]_vars

-----------------------------------------------------------------------------
(* Lexer (lexer.rs).  A source text is a sequence of characters; a token    *)
(* text is one too.                                                         *)

UpperLetters ==
    {"A", "B", "C", "D", "E", "F", "G", "H", "I", "J", "K", "L", "M",
     "N", "O", "P", "Q", "R", "S", "T", "U", "V", "W", "X", "Y", "Z"}

LowerLetters ==
    {"a", "b", "c", "d", "e", "f", "g", "h", "i", "j", "k", "l", "m",
     "n", "o", "p", "q", "r", "s", "t", "u", "v", "w", "x", "y", "z"}

is_ascii_alphabetic(ch) == ch \in UpperLetters \cup LowerLetters

is_ascii_digit(ch) == ch \in {"0", "1", "2", "3", "4", "5", "6", "7", "8", "9"}

is_ascii_alphanumeric(ch) == is_ascii_alphabetic(ch) \/ is_ascii_digit(ch)

\* the words of the Token::Keyword arm of read_id_or_kwd
KeywordWords ==
    { << "D", "E", "C", "L", "A", "R", "E" >>,
      << "F", "U", "N", "C", "T", "I", "O", "N" >>,
      << "R", "E", "T", "U", "R", "N", "S" >>, << "F", "O", "R" >>,
      << "W", "H", "I", "L", "E" >>, << "I", "F" >>, << "T", "Y", "P", "E" >>,
      << "P", "R", "O", "C", "E", "D", "U", "R", "E" >>, << "E", "L", "S", "E" >>,
      << "D", "O" >>, << "E", "N", "D" >>,
      << "E", "N", "D", "F", "U", "N", "C", "T", "I", "O", "N" >>,
      << "N", "E", "X", "T" >>, << "E", "N", "D", "I", "F" >>,
      << "E", "N", "D", "T", "Y", "P", "E" >>,
      << "E", "N", "D", "P", "R", "O", "C", "E", "D", "U", "R", "E" >>,
      << "E", "N", "D", "W", "H", "I", "L", "E" >>, << "B", "R", "E", "A", "K" >>,
      << "R", "E", "T", "U", "R", "N" >>, << "I", "N", "P", "U", "T" >>,
      << "O", "U", "T", "P", "U", "T" >>, << "T", "H", "E", "N" >>,
      << "C", "A", "L", "L" >>, << "R", "E", "P", "E", "A", "T" >>,
      << "O", "P", "E", "N", "F", "I", "L", "E" >>,
      << "C", "L", "O", "S", "E", "F", "I", "L", "E" >>,
      << "W", "R", "I", "T", "E", "F", "I", "L", "E" >>, << "S", "E", "E", "K" >>,
      << "G", "E", "T", "R", "E", "C", "O", "R", "D" >>,
      << "P", "U", "T", "R", "E", "C", "O", "R", "D" >>, << "T", "R", "U", "E" >>,
      << "F", "A", "L", "S", "E" >>, << "R", "E", "A", "D", "F", "I", "L", "E" >>,
      << "M", "O", "D" >>, << "L", "E", "N", "G", "T", "H" >>, << "S", "E", "T" >>,
      << "O", "F" >>, << "T", "O" >>, << "S", "T", "E", "P" >>,
      << "U", "N", "T", "I", "L" >>, << "R", "O", "U", "N", "D" >>,
      << "R", "A", "N", "D" >>, << "S", "T", "R", "I", "N", "G" >>,
      << "I", "N", "T", "E", "G", "E", "R" >>, << "R", "E", "A", "L" >>,
      << "C", "H", "A", "R" >>, << "B", "O", "O", "L", "E", "A", "N" >>,
      << "D", "A", "T", "E" >>, << "A", "R", "R", "A", "Y" >>,
      << "E", "N", "D", "C", "A", "S", "E" >>, << "U", "C", "A", "S", "E" >>,
      << "L", "C", "A", "S", "E" >>, << "R", "E", "A", "D" >>,
      << "W", "R", "I", "T", "E" >>, << "R", "A", "N", "D", "O", "M" >>,
      << "C", "A", "S", "E" >>, << "O", "T", "H", "E", "R", "W", "I", "S", "E" >>,
      << "D", "I", "V" >>, << "I", "N", "T" >>,
      << "S", "U", "B", "S", "T", "R", "I", "N", "G" >>, << "M", "I", "D" >>,
      << "R", "I", "G", "H", "T" >>, << "E", "O", "F" >> }

\* Lexer::new
NewLexer(input) == [input |-> input, pos |-> 0, line |-> 1, column |-> 1]

\* Lexer::peek and Lexer::peek_next: Option<char> as a sequence
peek(lx) == IF lx.pos >= Len(lx.input) THEN << >> ELSE << lx.input[lx.pos + 1] >>

peek_next(lx) == IF lx.pos + 1 >= Len(lx.input) THEN << >> ELSE << lx.input[lx.pos + 2] >>

\* Lexer::advance: the lexer after it; the character it returns is peek(lx)
LexerAdvance(lx) ==
    IF lx.pos >= Len(lx.input) THEN lx
    ELSE IF lx.input[lx.pos + 1] = "\n"
    THEN [lx EXCEPT !.pos = @ + 1, !.line = @ + 1, !.column = 1]
    ELSE IF lx.input[lx.pos + 1] = "\r"
    THEN [lx EXCEPT !.pos = IF peek_next(lx) = << "\n" >> THEN @ + 2 ELSE @ + 1,
                    !.line = @ + 1, !.column = 1]
    ELSE [lx EXCEPT !.pos = @ + 1, !.column = @ + 1]

\* the inner loop of skip_whitespace: to the end of the line, pos only
RECURSIVE SkipComment(_)
SkipComment(lx) ==
    IF lx.pos < Len(lx.input) /\ lx.input[lx.pos + 1] \notin {"\n", "\r"}
    THEN SkipComment([lx EXCEPT !.pos = @ + 1])
    ELSE lx

\* Lexer::skip_whitespace
RECURSIVE skip_whitespace(_)
skip_whitespace(lx) ==
    IF lx.pos >= Len(lx.input) THEN lx
    ELSE IF lx.input[lx.pos + 1] \in {" ", "\t"}
    THEN skip_whitespace([lx EXCEPT !.pos = @ + 1, !.column = @ + 1])
    ELSE IF lx.input[lx.pos + 1] = "/" /\ peek_next(lx) = << "/" >>
    THEN skip_whitespace(SkipComment(lx))
    ELSE lx

\* what next_token leaves: the lexer and the token, or a panic
Lexed(lx, token) == [lx |-> lx, token |-> token, panic |-> << >>]

LexPanic(lx, msg) == [lx |-> lx, token |-> Tok("EOF"), panic |-> << msg >>]

\* Lexer::read_number
RECURSIVE read_number(_, _)
read_number(lx, number) ==
    IF peek(lx) # << >> /\ (is_ascii_digit(peek(lx)[1]) \/ peek(lx)[1] = ".")
    THEN read_number(LexerAdvance(lx), Append(number, peek(lx)[1]))
    ELSE Lexed(lx, [t |-> "Number", text |-> number])

\* the match of read_id_or_kwd
WordToken(id) ==
    IF id = << "A", "N", "D" >> THEN Tok("And")
    ELSE IF id = << "O", "R" >> THEN Tok("Or")
    ELSE IF id = << "N", "O", "T" >> THEN Tok("Not")
    ELSE IF id \in KeywordWords THEN [t |-> "Keyword", text |-> id]
    ELSE [t |-> "Identifier", text |-> id]

\* Lexer::read_id_or_kwd
RECURSIVE read_id_or_kwd(_, _)
read_id_or_kwd(lx, id) ==
    IF peek(lx) # << >> /\ (is_ascii_alphanumeric(peek(lx)[1]) \/ peek(lx)[1] = "_")
    THEN read_id_or_kwd(LexerAdvance(lx), Append(id, peek(lx)[1]))
    ELSE Lexed(lx, WordToken(id))

\* the character an escape stands for
Escaped(ch) ==
    CASE ch = "n" -> "\n"
      [] ch = "r" -> "\r"
      [] ch = "t" -> "\t"
      [] OTHER -> ch

\* the `while let Some(ch) = self.peek()` of read_string
RECURSIVE StringLoop(_, _)
StringLoop(lx, string) ==
    IF peek(lx) = << >> THEN Lexed(lx, [t |-> "String", text |-> string])
    ELSE IF peek(lx)[1] = "\"" THEN Lexed(LexerAdvance(lx), [t |-> "String", text |-> string])
    ELSE IF peek(lx)[1] = "\\"
    THEN IF peek(LexerAdvance(lx)) = << >> THEN StringLoop(LexerAdvance(lx), string)
         ELSE StringLoop(LexerAdvance(LexerAdvance(lx)),
                         Append(string, Escaped(peek(LexerAdvance(lx))[1])))
    ELSE StringLoop(LexerAdvance(lx), Append(string, peek(lx)[1]))

\* Lexer::read_string
read_string(lx) == StringLoop(LexerAdvance(lx), << >>)

\* Lexer::read_char: `self.advance().unwrap()` panics at the end of the input
read_char(lx) ==
    IF peek(LexerAdvance(lx)) = << >>
    THEN LexPanic(LexerAdvance(lx), "called Option::unwrap() on a None value")
    ELSE Bind(LexerAdvance(LexerAdvance(lx)), LAMBDA after :
         Lexed(IF peek(after) = << "'" >> THEN LexerAdvance(after) ELSE after,
               [t |-> "Char", text |-> << peek(LexerAdvance(lx))[1] >>]))

\* the two-character operators of next_token
TwoCharToken(ch, next) ==
    CASE ch = "-" /\ next = << ">" >> -> << "RightArrow" >>
      [] ch = "<" /\ next = << "-" >> -> << "LeftArrow" >>
      [] ch = "<" /\ next = << ">" >> -> << "NotEquals" >>
      [] ch = "<" /\ next = << "=" >> -> << "LessThanOrEqual" >>
      [] ch = ">" /\ next = << "=" >> -> << "GreaterThanOrEqual" >>
      [] OTHER -> << >>

\* the `match ch` at the end of next_token
OneCharToken(ch) ==
    CASE ch = "+" -> << "Plus" >>
      [] ch = "-" -> << "Minus" >>
      [] ch = "*" -> << "Multiply" >>
      [] ch = "/" -> << "Divide" >>
      [] ch = "=" -> << "Equals" >>
      [] ch = "<" -> << "LessThan" >>
      [] ch = ">" -> << "GreaterThan" >>
      [] ch = "(" -> << "LeftParen" >>
      [] ch = ")" -> << "RightParen" >>
      [] ch = "[" -> << "LeftBracket" >>
      [] ch = "]" -> << "RightBracket" >>
      [] ch = "," -> << "Comma" >>
      [] ch = ":" -> << "Colon" >>
      [] ch = "^" -> << "Caret" >>
      [] ch = "." -> << "Dot" >>
      [] OTHER -> << >>

\* the message of the panic on any other character names the line and column
UnexpectedCharacter == "Unexpected character at line:column"

\* next_token after skip_whitespace
TokenAt(lx) ==
    IF lx.pos >= Len(lx.input) THEN Lexed(lx, Tok("EOF"))
    ELSE Bind(peek(lx)[1], LAMBDA ch :
         IF ch \in {"\n", "\r"} THEN Lexed(LexerAdvance(lx), Tok("Newline"))
         ELSE IF ch = "\"" THEN read_string(lx)
         ELSE IF ch = "'" THEN read_char(lx)
         ELSE IF is_ascii_digit(ch) THEN read_number(lx, << >>)
         ELSE IF is_ascii_alphabetic(ch) THEN read_id_or_kwd(lx, << >>)
         ELSE IF TwoCharToken(ch, peek_next(lx)) # << >>
         THEN Lexed(LexerAdvance(LexerAdvance(lx)), Tok(TwoCharToken(ch, peek_next(lx))[1]))
         ELSE IF OneCharToken(ch) # << >>
         THEN Lexed(LexerAdvance(lx), Tok(OneCharToken(ch)[1]))
         ELSE LexPanic(LexerAdvance(lx), UnexpectedCharacter))

\* Lexer::next_token
next_token(lx) == TokenAt(skip_whitespace(lx))

\* TokenWithPos
TokenWithPos(token, line, column) == [token |-> token, line |-> line, column |-> column]

\* Lexer::tokenize_with_pos: the tokens with the line and column the lexer
\* was at before each, up to EOF; a panic ends the call without tokens
RECURSIVE TokenizeLoop(_, _)
TokenizeLoop(lx, tokens) ==
    Bind(next_token(lx), LAMBDA r :
    IF r.panic # << >>
    THEN [ok |-> FALSE, tokens |-> << >>, panic |-> r.panic[1], line |-> r.lx.line]
    ELSE IF r.token = Tok("EOF")
    THEN [ok |-> TRUE, panic |-> "", line |-> r.lx.line,
          tokens |-> Append(tokens, TokenWithPos(r.token, lx.line, lx.column))]
    ELSE TokenizeLoop(r.lx, Append(tokens, TokenWithPos(r.token, lx.line, lx.column))))

tokenize_with_pos(input) == TokenizeLoop(NewLexer(input), << >>)

-----------------------------------------------------------------------------
(* Source texts for the lexer                                               *)

\* a letter, the two line break characters, the two quotes, a slash and a
\* character the lexer does not know
SourceChars == {"a", "\n", "\r", "\"", "'", "/", "#"}

\* the letters in the order of the alphabet
UpperAlphabet ==
    << "A", "B", "C", "D", "E", "F", "G", "H", "I", "J", "K", "L", "M",
       "N", "O", "P", "Q", "R", "S", "T", "U", "V", "W", "X", "Y", "Z" >>

LowerAlphabet ==
    << "a", "b", "c", "d", "e", "f", "g", "h", "i", "j", "k", "l", "m",
       "n", "o", "p", "q", "r", "s", "t", "u", "v", "w", "x", "y", "z" >>

\* a word with its upper-case letters in lower case
LowerCased(word) ==
    [c \in DOMAIN word |->
        IF word[c] \in UpperLetters
        THEN LowerAlphabet[CHOOSE n \in 1..26 : UpperAlphabet[n] = word[c]]
        ELSE word[c]]

\* words in the spelling of the match of read_id_or_kwd, CONSTANT, and
\* names a program may use
UpperWords ==
    KeywordWords \cup { << "A", "N", "D" >>, << "O", "R" >>, << "N", "O", "T" >>,
          << "C", "O", "N", "S", "T", "A", "N", "T" >>, << "X" >>,
          << "E", "N", "D", "S" >> }

\* the words a source text may hold: upper case, lower case, mixed
WordTexts ==
    UpperWords \cup { LowerCased(w) : w \in UpperWords }
        \cup { << "I", "f" >>, << "a", "1" >>, << "a", "_", "b" >>,
          << "M", "o", "d" >> }

SourceTexts == UNION { [1..n -> SourceChars] : n \in 0..MaxSource } \cup WordTexts

\* the engine before any call, with the text a Parser::new is about to lex
InitLexer ==
    /\ variables = EmptyMap
    /\ variables_type = EmptyMap
    /\ functions = EmptyMap
    /\ procedures = EmptyMap
    /\ constants = {}
    /\ open_files = EmptyMap
    /\ virtual_files = EmptyMap
    /\ output_buffer = << >>
    /\ input_queue = << >>
    /\ call_stack = << >>
    /\ context_stack = << >>
    /\ parsed_statements = << >>
    /\ current_statement_index = 0
    /\ \E source \in SourceTexts :
           last = [op |-> "new", calls |-> 0, ran |-> << >>, errors |-> << >>,
                   output |-> << >>, source |-> source]

\* Parser::new: `Lexer::new(input).tokenize_with_pos()`
TokenizeWithPos ==
    /\ last.op = "new"
    /\ last' = [op |-> "tokenize_with_pos", calls |-> last.calls + 1, ran |-> << >>,
                errors |-> << >>, output |-> << >>, source |-> last.source,
                lexed |-> tokenize_with_pos(last.source)]
    /\ UNCHANGED << variables, variables_type, functions, procedures, constants,
                    open_files, virtual_files, output_buffer, input_queue,
                    call_stack, context_stack, parsed_statements,
                    current_statement_index >>

NextLexer == TokenizeWithPos

SpecLexer == InitLexer /\ [][NextLexer]_vars

-----------------------------------------------------------------------------
(* Symbol and completion service (language_service.rs).  Names, labels and  *)
(* the source text are sequences of characters; details and documentation   *)
(* are strings.                                                             *)

TypeDeclaration(name, variant) ==
    [s |-> "TypeDeclaration", name |-> name, variant |-> variant]

\* the SymbolTable extract_symbols starts from
NewSymbolTable ==
    [variables |-> << >>, constants |-> << >>, functions |-> << >>,
     procedures |-> << >>, types |-> << >>]

\* the ParamInfo of a parameter
ParamInfos(params) ==
    [j \in DOMAIN params |-> [name |-> params[j].name, type_name |-> params[j].type_name]]

\* SymbolExtractor::extract_from_stmt, and its loops over a body
RECURSIVE extract_from_stmt(_, _), ExtractLoop(_, _)
extract_from_stmt(stmt, table) ==
    CASE stmt.s = "Declare" ->
            [table EXCEPT !.variables =
                Append(@, [name |-> stmt.name, type_name |-> stmt.type_name])]
      [] stmt.s = "Constant" ->
            [table EXCEPT !.constants = Append(@, [name |-> stmt.name])]
      [] stmt.s = "FunctionDeclaration" ->
            ExtractLoop(stmt.function.body,
                [table EXCEPT !.functions =
                    Append(@, [name |-> stmt.function.name,
                               params |-> ParamInfos(stmt.function.params),
                               return_type |-> stmt.function.return_type])])
      [] stmt.s = "ProcedureDeclaration" ->
            ExtractLoop(stmt.procedure.body,
                [table EXCEPT !.procedures =
                    Append(@, [name |-> stmt.procedure.name,
                               params |-> ParamInfos(stmt.procedure.params)])])
      [] stmt.s = "TypeDeclaration" ->
            [table EXCEPT !.types = Append(@, [name |-> stmt.name])]
      [] OTHER -> table

ExtractLoop(statements, table) ==
    IF statements = << >> THEN table
    ELSE ExtractLoop(Tail(statements), extract_from_stmt(Head(statements), table))

\* SymbolExtractor::extract_symbols
extract_symbols(statements) == ExtractLoop(statements, NewSymbolTable)

starts_with(text, word) ==
    Len(word) <= Len(text) /\ SubSeq(text, 1, Len(word)) = word

ends_with(text, word) ==
    Len(word) <= Len(text) /\ SubSeq(text, Len(text) - Len(word) + 1, Len(text)) = word

contains(text, word) ==
    \E c \in 0..(Len(text) - Len(word)) : SubSeq(text, c + 1, c + Len(word)) = word

\* code.split('\n'): `line` is the piece being read
RECURSIVE SplitLines(_, _, _)
SplitLines(code, lines, line) ==
    IF code = << >> THEN Append(lines, line)
    ELSE IF Head(code) = "\n" THEN SplitLines(Tail(code), Append(lines, line), << >>)
    ELSE SplitLines(Tail(code), lines, Append(line, Head(code)))

\* lines.join("\n")
RECURSIVE JoinLines(_)
JoinLines(lines) ==
    IF lines = << >> THEN << >>
    ELSE IF Len(lines) = 1 THEN lines[1]
    ELSE lines[1] \o << "\n" >> \o JoinLines(Tail(lines))

Smaller(a, b) == IF a < b THEN a ELSE b

\* ContextAnalyzer::extract_prefix: the last piece of the trimmed text when
\* it is split at every character that is no letter, digit or underscore
RECURSIVE LastPiece(_, _)
LastPiece(text, piece) ==
    IF text = << >> THEN piece
    ELSE IF is_ascii_alphanumeric(Head(text)) \/ Head(text) = "_"
    THEN LastPiece(Tail(text), Append(piece, Head(text)))
    ELSE LastPiece(Tail(text), << >>)

extract_prefix(text) == LastPiece(trim(text), << >>)

\* ContextAnalyzer::matches_pattern, one definition per pattern
MatchesDeclare(text) == ends_with(trim_end(text), << ":" >>) /\ contains(text, << "D", "E", "C", "L", "A", "R", "E" >>)

MatchesFunction(text) ==
    /\ contains(text, << "F", "U", "N", "C", "T", "I", "O", "N" >>)
    /\ contains(text, << "R", "E", "T", "U", "R", "N", "S" >>)
    /\ ends_with(trim_end(text), << "R", "E", "T", "U", "R", "N", "S" >>)

MatchesArrayBracket(text) == contains(text, << "A", "R", "R", "A", "Y" >>) /\ contains(text, << "[" >>)

MatchesColonArray(text) ==
    ends_with(trim_end(text), << "A", "R", "R", "A", "Y" >>) /\ contains(text, << ":" >>)

MatchesIf(text) ==
    /\ contains(text, << "I", "F" >>)
    /\ \/ ends_with(trim_end(text), << "T", "H", "E", "N" >>)
       \/ ends_with(trim_end(text), << "D", "O" >>)

MatchesFor(text) ==
    /\ contains(text, << "F", "O", "R" >>)
    /\ contains(text, << "<", "-" >>)
    /\ contains(text, << "T", "O" >>)
    /\ ends_with(trim_end(text), << "T", "O" >>)

MatchesCallAhead(text) ==
    /\ trim_start(text) # << >>
    /\ trim_start(text)[1] \in UpperLetters \cup {"_"}
    /\ contains(text, << "(" >>)

MatchesCallBehind(text) == ends_with(trim_end(text), << "(" >>) /\ Len(text) > 1

\* the line of the cursor, and its parts before and after the cursor
CurrentLine(code, line) ==
    IF line > 0 /\ line <= Len(SplitLines(code, << >>, << >>))
    THEN SplitLines(code, << >>, << >>)[line] ELSE << >>

BeforeCursor(current_line, column) ==
    IF column > 0 /\ column <= Len(current_line) + 1
    THEN SubSeq(current_line, 1, Smaller(column - 1, Len(current_line)))
    ELSE current_line

AfterCursor(current_line, column) ==
    IF column > 0 /\ column <= Len(current_line) + 1
    THEN SubSeq(current_line, Smaller(column - 1, Len(current_line)) + 1, Len(current_line))
    ELSE << >>

FullContext(code, line, column) ==
    (IF line > 1 THEN JoinLines(SubSeq(SplitLines(code, << >>, << >>), 1,
                                       Smaller(line - 1, Len(SplitLines(code, << >>, << >>)))))
     ELSE << >>)
        \o << "\n" >> \o BeforeCursor(CurrentLine(code, line), column)

\* ContextAnalyzer::analyze_context
analyze_context(code, line, column) ==
    Bind(BeforeCursor(CurrentLine(code, line), column), LAMBDA before_cursor :
    Bind(AfterCursor(CurrentLine(code, line), column), LAMBDA after_cursor :
    [after_declare |-> MatchesDeclare(before_cursor),
     after_function |-> MatchesFunction(before_cursor),
     in_array_decl |-> MatchesArrayBracket(FullContext(code, line, column))
                          /\ MatchesColonArray(before_cursor),
     in_assignment |-> contains(before_cursor, << "<", "-" >>)
                          /\ ~starts_with(trim_start(after_cursor), << "<" >>),
     after_if |-> MatchesIf(before_cursor),
     after_for |-> MatchesFor(before_cursor),
     in_function_call |-> MatchesCallAhead(after_cursor) \/ MatchesCallBehind(before_cursor),
     is_start_of_line |-> trim(before_cursor) = << >>,
     prefix |-> extract_prefix(before_cursor)]))

KEYWORDS ==
    << << "D", "E", "C", "L", "A", "R", "E" >>,
       << "C", "O", "N", "S", "T", "A", "N", "T" >>,
       << "F", "U", "N", "C", "T", "I", "O", "N" >>,
       << "P", "R", "O", "C", "E", "D", "U", "R", "E" >>,
       << "E", "N", "D", "F", "U", "N", "C", "T", "I", "O", "N" >>,
       << "E", "N", "D", "P", "R", "O", "C", "E", "D", "U", "R", "E" >>,
       << "I", "F" >>, << "T", "H", "E", "N" >>, << "E", "L", "S", "E" >>,
       << "E", "N", "D", "I", "F" >>, << "W", "H", "I", "L", "E" >>,
       << "D", "O" >>, << "E", "N", "D", "W", "H", "I", "L", "E" >>,
       << "F", "O", "R" >>, << "T", "O" >>, << "N", "E", "X", "T" >>,
       << "R", "E", "P", "E", "A", "T" >>, << "U", "N", "T", "I", "L" >>,
       << "R", "E", "T", "U", "R", "N" >>, << "C", "A", "L", "L" >>,
       << "I", "N", "P", "U", "T" >>, << "O", "U", "T", "P", "U", "T" >>,
       << "O", "P", "E", "N", "F", "I", "L", "E" >>,
       << "C", "L", "O", "S", "E", "F", "I", "L", "E" >>,
       << "R", "E", "A", "D", "F", "I", "L", "E" >>,
       << "W", "R", "I", "T", "E", "F", "I", "L", "E" >>,
       << "S", "E", "E", "K" >>,
       << "G", "E", "T", "R", "E", "C", "O", "R", "D" >>,
       << "P", "U", "T", "R", "E", "C", "O", "R", "D" >>,
       << "I", "N", "T", "E", "G", "E", "R" >>, << "R", "E", "A", "L" >>,
       << "S", "T", "R", "I", "N", "G" >>, << "C", "H", "A", "R" >>,
       << "B", "O", "O", "L", "E", "A", "N" >>, << "A", "R", "R", "A", "Y" >>,
       << "O", "F" >>, << "A", "N", "D" >>, << "O", "R" >>,
       << "N", "O", "T" >>, << "T", "R", "U", "E" >>,
       << "F", "A", "L", "S", "E" >>, << "T", "Y", "P", "E" >>,
       << "E", "N", "D", "T", "Y", "P", "E" >>, << "C", "A", "S", "E" >>,
       << "E", "N", "D", "C", "A", "S", "E" >>,
       << "O", "T", "H", "E", "R", "W", "I", "S", "E" >>,
       << "R", "E", "T", "U", "R", "N", "S" >> >>

TYPES ==
    << << "I", "N", "T", "E", "G", "E", "R" >>, << "R", "E", "A", "L" >>,
       << "S", "T", "R", "I", "N", "G" >>, << "C", "H", "A", "R" >>,
       << "B", "O", "O", "L", "E", "A", "N" >>,
       << "A", "R", "R", "A", "Y" >> >>

BUILTIN_FUNCTIONS ==
    << [name |-> << "L", "E", "N", "G", "T", "H" >>,
        description |-> "Returns the length of a string",
        params |-> << "string" >>],
       [name |-> << "U", "C", "A", "S", "E" >>,
        description |-> "Converts a string to uppercase",
        params |-> << "string" >>],
       [name |-> << "L", "C", "A", "S", "E" >>,
        description |-> "Converts a string to lowercase",
        params |-> << "string" >>],
       [name |-> << "S", "U", "B", "S", "T", "R", "I", "N", "G" >>,
        description |-> "Extracts a substring from a string",
        params |-> << "string", "start", "length" >>],
       [name |-> << "R", "I", "G", "H", "T" >>,
        description |-> "Returns the rightmost characters of a string",
        params |-> << "string", "count" >>],
       [name |-> << "M", "I", "D" >>,
        description |-> "Extracts characters from the middle of a string",
        params |-> << "string", "start", "count" >>],
       [name |-> << "R", "O", "U", "N", "D" >>,
        description |-> "Rounds a number to the nearest integer",
        params |-> << "number", "decimals" >>],
       [name |-> << "R", "A", "N", "D", "O", "M" >>,
        description |-> "Returns a random number between 0 and 1",
        params |-> <<  >>],
       [name |-> << "R", "A", "N", "D" >>,
        description |-> "Returns a random real number in the range 0 to x (not inclusive of x)",
        params |-> << "x" >>],
       [name |-> << "E", "O", "F" >>,
        description |-> "Checks if end of file has been reached",
        params |-> << "file" >>],
       [name |-> << "M", "O", "D" >>,
        description |-> "Returns the remainder of division",
        params |-> << "dividend", "divisor" >>] >>

\* the names of the arms of evaluate_builtin_function
BuiltinArms ==
    { << "M", "O", "D" >>, << "D", "I", "V" >>,
       << "L", "E", "N", "G", "T", "H" >>, << "U", "C", "A", "S", "E" >>,
       << "L", "C", "A", "S", "E" >>,
       << "S", "U", "B", "S", "T", "R", "I", "N", "G" >>, << "M", "I", "D" >>,
       << "R", "I", "G", "H", "T" >>, << "R", "A", "N", "D", "O", "M" >>,
       << "R", "A", "N", "D" >>, << "R", "O", "U", "N", "D" >>,
       << "I", "N", "T" >>, << "E", "O", "F" >> }

\* the characters of a text as one string
RECURSIVE Text(_)
Text(chars) == IF chars = << >> THEN "" ELSE Head(chars) \o Text(Tail(chars))

\* {:?} of a Type without fields
TypeDebug(type_name) == type_name.t

\* CompletionProvider::get_keyword_documentation
get_keyword_documentation(keyword) ==
    CASE keyword = << "D", "E", "C", "L", "A", "R", "E" >> -> "Declares a variable or array"
      [] keyword = << "C", "O", "N", "S", "T", "A", "N", "T" >> -> "Declares a constant value"
      [] keyword = << "F", "U", "N", "C", "T", "I", "O", "N" >> -> "Defines a function"
      [] keyword = << "P", "R", "O", "C", "E", "D", "U", "R", "E" >> -> "Defines a procedure"
      [] keyword = << "I", "F" >> -> "Conditional statement"
      [] keyword = << "W", "H", "I", "L", "E" >> -> "While loop"
      [] keyword = << "F", "O", "R" >> -> "For loop"
      [] keyword = << "R", "E", "T", "U", "R", "N" >> -> "Returns a value from a function"
      [] keyword = << "O", "U", "T", "P", "U", "T" >> -> "Outputs a value"
      [] keyword = << "I", "N", "P", "U", "T" >> -> "Reads input from user"
      [] keyword = << "A", "R", "R", "A", "Y" >> -> "Array type declaration"
      [] keyword = << "C", "A", "S", "E" >> -> "CASE OF <identifier> - Switch statement"
      [] OTHER -> "Keyword: " \o Text(keyword)

\* "p: T, q: U" of both format_..._documentation
RECURSIVE JoinParams(_)
JoinParams(params) ==
    IF params = << >> THEN ""
    ELSE Text(params[1].name) \o ": " \o TypeDebug(params[1].type_name)
            \o (IF Len(params) > 1 THEN ", " \o JoinParams(Tail(params)) ELSE "")

\* the three characters between the spaces are written as their bytes
format_function_documentation(func) ==
    "Function " \o Text(func.name) \o "(" \o JoinParams(func.params) \o ")"
        \o " c3a2e280a0e28099 " \o TypeDebug(func.return_type)

format_procedure_documentation(proc) ==
    "Procedure " \o Text(proc.name) \o "(" \o JoinParams(proc.params) \o ")"

CompletionItem(label, kind, detail, documentation, insert_text) ==
    [label |-> label, kind |-> kind, detail |-> detail,
     documentation |-> documentation, insert_text |-> insert_text]

\* the closure matches_prefix
matches_prefix(context, item) ==
    context.prefix = << >> \/ starts_with(LowerCased(item), LowerCased(context.prefix))

\* the items of a loop: for x in xs { if matches_prefix(..) { push(..) } }
PushMatching(context, items) ==
    SelectSeq(items, LAMBDA item : matches_prefix(context, item.label))

KeywordItems ==
    [j \in DOMAIN KEYWORDS |->
        CompletionItem(KEYWORDS[j], "Keyword", "Keyword", get_keyword_documentation(KEYWORDS[j]),
                       IF KEYWORDS[j] = << "C", "A", "S", "E" >>
                       THEN << "C", "A", "S", "E", " ", "O", "F", " " >> ELSE KEYWORDS[j])]

BuiltinItems ==
    [j \in DOMAIN BUILTIN_FUNCTIONS |->
        CompletionItem(BUILTIN_FUNCTIONS[j].name, "Function", "Built-in Function",
                       BUILTIN_FUNCTIONS[j].description,
                       Append(BUILTIN_FUNCTIONS[j].name, "("))]

VariableItems(symbols) ==
    [j \in DOMAIN symbols.variables |->
        CompletionItem(symbols.variables[j].name, "Variable",
                       "Variable: " \o TypeDebug(symbols.variables[j].type_name),
                       "Variable: " \o Text(symbols.variables[j].name),
                       symbols.variables[j].name)]

ConstantItems(symbols) ==
    [j \in DOMAIN symbols.constants |->
        CompletionItem(symbols.constants[j].name, "Constant", "Constant",
                       "Constant: " \o Text(symbols.constants[j].name),
                       symbols.constants[j].name)]

TypeItems(detail, documentation) ==
    [j \in DOMAIN TYPES |->
        CompletionItem(TYPES[j], "Type", detail, documentation \o Text(TYPES[j]), TYPES[j])]

ArrayItem ==
    CompletionItem(<< "A", "R", "R", "A", "Y" >>, "Keyword", "Type",
                   "Array type declaration", << "A", "R", "R", "A", "Y" >>)

FunctionItems(symbols) ==
    [j \in DOMAIN symbols.functions |->
        CompletionItem(symbols.functions[j].name, "Function",
                       "Function: " \o TypeDebug(symbols.functions[j].return_type),
                       format_function_documentation(symbols.functions[j]),
                       Append(symbols.functions[j].name, "("))]

ProcedureItems(symbols) ==
    [j \in DOMAIN symbols.procedures |->
        CompletionItem(symbols.procedures[j].name, "Function", "Procedure",
                       format_procedure_documentation(symbols.procedures[j]),
                       Append(symbols.procedures[j].name, "("))]

\* the bytes of the labels, in their order
ByteOrder ==
    << "0", "1", "2", "3", "4", "5", "6", "7", "8", "9" >> \o UpperAlphabet
        \o << "_" >> \o LowerAlphabet

Byte(ch) == CHOOSE n \in DOMAIN ByteOrder : ByteOrder[n] = ch

\* a.cmp(b) is Less or Equal, for strings
RECURSIVE NotGreater(_, _)
NotGreater(a, b) ==
    IF a = << >> THEN TRUE
    ELSE IF b = << >> THEN FALSE
    ELSE IF Head(a) = Head(b) THEN NotGreater(Tail(a), Tail(b))
    ELSE Byte(Head(a)) < Byte(Head(b))

\* suggestions.sort_by(|a, b| a.label.cmp(&b.label)), a stable sort: an
\* item comes after the items with a smaller label and after the earlier
\* items with its label
Rank(suggestions, k) ==
    Cardinality({ j \in DOMAIN suggestions :
                    IF suggestions[j].label = suggestions[k].label THEN j <= k
                    ELSE NotGreater(suggestions[j].label, suggestions[k].label) })

\* the items in the order of the ranks, a set of pairs << rank, index >>
Ranked(suggestions, ranks) ==
    [n \in DOMAIN suggestions |-> suggestions[(CHOOSE pair \in ranks : pair[1] = n)[2]]]

SortByLabel(suggestions) ==
    CHOOSE sorted \in
        UNION { { Ranked(items, ranks) :
                    ranks \in { { << Rank(items, k), k >> : k \in DOMAIN items } } } :
                items \in { suggestions } } : TRUE

\* the items of the branch the context selects
ContextItems(context, symbols) ==
    IF context.after_declare
    THEN Append(TypeItems("Type", "Data type: "), ArrayItem)
    ELSE IF context.after_function
    THEN TypeItems("Return Type", "Return type: ")
    ELSE FunctionItems(symbols) \o ProcedureItems(symbols)

\* CompletionProvider::get_completions
get_completions(code, line, column, statements) ==
    Bind(analyze_context(code, line, column), LAMBDA context :
    Bind(extract_symbols(statements), LAMBDA symbols :
    SortByLabel(PushMatching(context,
                             KeywordItems \o BuiltinItems \o VariableItems(symbols)
                                 \o ConstantItems(symbols)
                                 \o ContextItems(context, symbols)))))

-----------------------------------------------------------------------------
(* Programs and cursors for the service                                     *)

DeclarationKinds ==
    {"Declare", "Constant", "TypeDeclaration", "FunctionDeclaration", "ProcedureDeclaration"}

\* the declaration of the kind, of the name
DeclarationStmt(kind, name) ==
    CASE kind = "Declare" -> Declare(name, TInteger)
      [] kind = "Constant" -> Constant(name, Num(1))
      [] kind = "TypeDeclaration" -> TypeDeclaration(name, [variant |-> "Pointer", points_to |-> TInteger])
      [] kind = "FunctionDeclaration" ->
            FunctionDeclaration(name, << Param(<< "a" >>, TInteger) >>, TInteger,
                                << Return(<< Num(1) >>) >>)
      [] kind = "ProcedureDeclaration" -> ProcedureDeclaration(name, << >>, << >>)

ContainerKinds ==
    {"If", "Else", "While", "For", "RepeatUntil", "Case", "Otherwise", "Function", "Procedure"}

OuterKinds == {"While", "Case", "Procedure"}

\* the statement of the kind whose body is `body`
ContainerStmt(kind, body) ==
    CASE kind = "Function" -> FunctionDeclaration(<< "h" >>, << >>, TInteger, body)
      [] kind = "Procedure" -> ProcedureDeclaration(<< "q" >>, << >>, body)
      [] OTHER -> BlockOf(kind, << "i" >>, body)

\* the statement inside the containers of the path, outermost first
RECURSIVE Nested(_, _)
Nested(path, stmt) ==
    IF path = << >> THEN stmt
    ELSE ContainerStmt(Head(path), << Nested(Tail(path), stmt) >>)

Paths ==
    { path \in UNION { [1..n -> ContainerKinds] : n \in 0..MaxNest } :
        \A j \in 1..(Len(path) - 1) : path[j] \in OuterKinds }

NestedPrograms ==
    { << Nested(path, DeclarationStmt(kind, << "m", "o" >>)) >> :
        path \in Paths, kind \in DeclarationKinds }

\* one declaration of each kind at top level, and the same inside an IF
FlatProgram ==
    << DeclarationStmt("Declare", << "m", "o" >>),
       DeclarationStmt("Constant", << "M", "a", "x" >>),
       DeclarationStmt("TypeDeclaration", << "P", "t", "r" >>),
       DeclarationStmt("FunctionDeclaration", << "m", "i", "d", "2" >>),
       DeclarationStmt("ProcedureDeclaration", << "d", "o", "_", "i", "t" >>) >>

\* source texts: some parse, some do not
Codes ==
    { << >>,
      << "x", " ", "<", "-", " ", "m" >>,
      << "I", "F", " ", "(" >>,
      << "D", "E", "C", "L", "A", "R", "E", " ", "v", " ", ":", " " >>,
      << "F", "U", "N", "C", "T", "I", "O", "N", " ", "f", "(", ")", " ", "R", "E", "T", "U", "R", "N", "S", " " >>,
      << "m", "\n", "D", "i" >>,
      << "C", "A", "L", "L", " ", "p", "(" >>,
      << "O", "U", "T", "P", "U", "T", " ", "M", "o" >> }

\* what the editor hands to the service: a text, a cursor and the
\* statements parsed from a text (none when it did not parse)
ServiceInputs ==
    { [code |-> code, line |-> line, column |-> column, statements |-> statements] :
        code \in Codes, line \in 0..MaxLine, column \in 0..MaxColumn,
        statements \in { << >>, FlatProgram, << IfThen(Num(1), FlatProgram) >> } }
    \cup { [code |-> << >>, line |-> 1, column |-> 1, statements |-> statements] :
             statements \in NestedPrograms }

InitService ==
    /\ variables = EmptyMap
    /\ variables_type = EmptyMap
    /\ functions = EmptyMap
    /\ procedures = EmptyMap
    /\ constants = {}
    /\ open_files = EmptyMap
    /\ virtual_files = EmptyMap
    /\ output_buffer = << >>
    /\ input_queue = << >>
    /\ call_stack = << >>
    /\ context_stack = << >>
    /\ parsed_statements = << >>
    /\ current_statement_index = 0
    /\ \E source \in ServiceInputs :
           last = [op |-> "new", calls |-> 0, ran |-> << >>, errors |-> << >>,
                   output |-> << >>, source |-> source, result |-> << >>]

\* SymbolExtractor::extract_symbols on the statements
ExtractSymbols ==
    /\ last.op = "new"
    /\ last' = [last EXCEPT !.op = "extract_symbols", !.calls = 1,
                            !.result = extract_symbols(last.source.statements)]
    /\ UNCHANGED << variables, variables_type, functions, procedures, constants,
                    open_files, virtual_files, output_buffer, input_queue, call_stack,
                    context_stack, parsed_statements, current_statement_index >>

\* CompletionProvider::get_completions at the cursor
GetCompletions ==
    /\ last.op = "new"
    /\ last' = [last EXCEPT !.op = "get_completions", !.calls = 1,
                            !.result = get_completions(last.source.code, last.source.line,
                                                       last.source.column,
                                                       last.source.statements)]
    /\ UNCHANGED << variables, variables_type, functions, procedures, constants,
                    open_files, virtual_files, output_buffer, input_queue, call_stack,
                    context_stack, parsed_statements, current_statement_index >>

NextService == ExtractSymbols \/ GetCompletions

SpecService == InitService /\ [][NextService]_vars

-----------------------------------------------------------------------------
(* Handle programs: files opened and closed at top level, in blocks, in     *)
(* procedures and functions, and next to statements that fail               *)

FileG == Str(<< "g" >>)

\* PROCEDURE opener() : OPENFILE "f" FOR WRITE
ProcOpener == ProcedureDeclaration("opener", << >>, << OpenFile(FileF, "WRITE") >>)

\* PROCEDURE closer() : CLOSEFILE "f"
ProcCloser == ProcedureDeclaration("closer", << >>, << CloseFile(FileF) >>)

\* PROCEDURE broken() : OPENFILE "g" FOR WRITE ; t <- zz
ProcBroken ==
    ProcedureDeclaration("broken", << >>, << OpenFile(FileG, "WRITE"), FailingStmt >>)

\* FUNCTION opens() RETURNS INTEGER : OPENFILE "g" FOR RANDOM ; RETURN 1
FuncOpens ==
    FunctionDeclaration("opens", << >>, TInteger,
                        << OpenFile(FileG, "RANDOM"), Return(<< Num(1) >>) >>)

HandlePrograms ==
    { Parsed(<< OpenFile(FileF, "WRITE"), FailingStmt, OpenFile(FileF, "WRITE"),
                CloseFile(FileF), CloseFile(FileF) >>),
      Parsed(<< OpenFile(FileF, "READ"), OpenFile(FileG, "RANDOM") >>),
      Parsed(<< ProcOpener, Call("opener", << >>), Call("opener", << >>) >>),
      Parsed(<< ProcCloser, Call("closer", << >>) >>),
      Parsed(<< ProcBroken, Call("broken", << >>), CloseFile(FileG) >>),
      Parsed(<< FuncOpens, Output(<< FunctionCall("opens", << >>) >>) >>),
      Parsed(<< FuncOpens, Output(<< FunctionCall("MOD", << FunctionCall("opens", << >>),
                                                           Num(2) >>) >>) >>),
      Parsed(<< IfThen(Num(1), << OpenFile(FileF, "WRITE"), CloseFile(FileG) >>) >>),
      Parsed(<< For("i", Num(1), Num(2), << >>, << OpenFile(FileG, "WRITE") >>) >>) }

NextHandles ==
    \/ \E code \in HandlePrograms : ExecuteProgram(code, MaxHandleCalls)
    \/ \E code \in HandlePrograms : ParseForExecution(code)
    \/ ExecuteNextStatement

SpecHandles == Init /\ [][NextHandles]_vars

-----------------------------------------------------------------------------
(* Constant programs: CONSTANT at top level, in a procedure, in a function  *)
(* and in a FOR loop                                                        *)

\* PROCEDURE locks(n : INTEGER) : CONSTANT c <- 1
ProcLocks ==
    ProcedureDeclaration("locks", << Param("n", TInteger) >>,
                         << Constant("c", << Num(1) >>) >>)

\* FUNCTION locked() RETURNS INTEGER : CONSTANT d <- 2 ; RETURN d
FuncLocked ==
    FunctionDeclaration("locked", << >>, TInteger,
                        << Constant("d", << Num(2) >>), Return(<< Var("d") >>) >>)

ConstantPrograms ==
    { Parsed(<< Constant("PI", << Num(3) >>), Assign("PI", Num(4)) >>),
      Parsed(<< Declare("x", TInteger), Assign("x", Num(1)), Constant("x", << >>) >>),
      Parsed(<< Constant("y", << >>), Constant("y", << Var("zz") >>) >>),
      Parsed(<< ProcLocks, Call("locks", << Num(1) >>) >>),
      Parsed(<< FuncLocked, Output(<< FunctionCall("locked", << >>) >>) >>),
      Parsed(<< For("i", Num(1), Num(1), << >>, << Constant("i", << >>) >>) >>),
      Parsed(<< For("j", Num(1), Num(2), << >>, << Constant("e", << Var("j") >>) >>) >>) }

NextConstants ==
    \/ \E code \in ConstantPrograms : ExecuteProgram(code, MaxConstantCalls)
    \/ \E code \in ConstantPrograms : ParseForExecution(code)
    \/ ExecuteNextStatement

SpecConstants == Init /\ [][NextConstants]_vars

-----------------------------------------------------------------------------
(* Stepping programs: one program run statement by statement and, from the  *)
(* same engine, in one execute call                                         *)

\* what the host has after a run: the output and the errors it was handed,
\* the interpreter the engine is left with, and whether a call was aborted
Outcome(output, errors, st, index, aborted) ==
    [output |-> output, errors |-> errors, st |-> st, index |-> index,
     aborted |-> aborted]

\* `while engine.has_more_statements() { engine.execute_next_statement() }`,
\* the host appending the output piece and the errors of every call; a
\* statement that panics aborts its call before the index moves
RECURSIVE SteppingLoop(_, _, _, _, _)
SteppingLoop(st, stmts, index, output, errors) ==
    IF ~(index < Len(stmts)) THEN Outcome(output, errors, st, index, FALSE)
    ELSE Bind(evaluate_stmt([st EXCEPT !.events = << >>], stmts[index + 1]),
         LAMBDA r :
         IF ~r.ok /\ r.msg \in { Panic, CapacityOverflow }
         THEN Outcome(output, errors, r.st, index, TRUE)
         ELSE SteppingLoop(r.st, stmts, index + 1,
                           output \o NewOutput(st.output_buffer, r.st.output_buffer),
                           errors \o (IF r.ok THEN << >> ELSE << r.msg >>)))

\* PseudocodeEngine::execute from the interpreter `st`, as a value
WholeExecution(st, code) ==
    IF ~code.ok
    THEN Outcome(<< >>, << "parse error" >>, [st EXCEPT !.output_buffer = << >>],
                 0, FALSE)
    ELSE Bind(ExecuteLoop([st EXCEPT !.output_buffer = << >>], code.stmts, 1, << >>),
         LAMBDA run :
         Outcome(run.st.output_buffer, ErrorsOf(run.ran, 1), run.st, Len(run.ran),
                 \E j \in DOMAIN run.ran :
                     ~run.ran[j].ok /\ run.ran[j].msg \in { Panic, CapacityOverflow }))

\* parse_for_execution(code), then execute_next_statement while
\* has_more_statements, from the interpreter `st`, as a value; the errors of
\* parse_for_execution come first
SteppedExecution(st, code) ==
    SteppingLoop([st EXCEPT !.output_buffer = << >>],
                 IF code.ok THEN code.stmts ELSE << >>, 0, << >>,
                 IF code.ok THEN << >> ELSE << "parse error" >>)

\* the host runs `code` step by step; `whole` is what one execute(code) from
\* the same engine gives
ExecuteStepped(code) ==
    /\ last.calls < MaxStepCalls
    /\ \E stepped \in { SteppedExecution(Interp, code) } :
           /\ WithinBounds(stepped.st)
           /\ SetInterp(stepped.st)
           /\ parsed_statements' = IF code.ok THEN code.stmts ELSE << >>
           /\ current_statement_index' = stepped.index
           /\ last' = [op |-> "stepped", calls |-> last.calls + 1, ran |-> << >>,
                       errors |-> stepped.errors, output |-> stepped.output,
                       code |-> code, aborted |-> stepped.aborted,
                       whole |-> WholeExecution(Interp, code)]

\* DECLARE w : ARRAY[0:65535, 0:32767] OF INTEGER, between two OUTPUTs
WideDeclare ==
    Declare("w", TArray(<< << Num(0), Num(65535) >>, << Num(0), Num(32767) >> >>,
                        TInteger))

SteppingPrograms ==
    CorePrograms \cup InputPrograms \cup
    { Parsed(<< OpenFile(FileF, "WRITE"), WriteFile(FileF, << Str(<< "n" >>) >>),
                CloseFile(FileF), OpenFile(FileF, "READ"),
                Declare("s", TString), ReadFile(FileF, "s"),
                Output(<< Var("s"), Var("zz") >>), Output(<< Var("s") >>) >>),
      Parsed(<< Output(<< Str(<< "a" >>) >>), Output(<< Num(1), Var("zz") >>),
                Output(<< >>), Output(<< Str(<< "b" >>) >>) >>),
      Parsed(<< Output(<< Str(<< "a" >>) >>), WideDeclare,
                Output(<< Str(<< "b" >>) >>) >>) }

NextStepping ==
    \/ \E input \in InputLines : AddInput(input)
    \/ \E code \in SteppingPrograms : Execute(code)
    \/ \E code \in SteppingPrograms : ExecuteStepped(code)

SpecStepping == Init /\ [][NextStepping]_vars

-----------------------------------------------------------------------------
(* Repeated programs: the host supplies inputs and files, runs a program,   *)
(* supplies the same inputs and files again and runs the program again      *)

\* an engine no program has left anything in
Fresh ==
    /\ variables = EmptyMap /\ variables_type = EmptyMap
    /\ functions = EmptyMap /\ procedures = EmptyMap /\ constants = {}
    /\ open_files = EmptyMap /\ call_stack = << >> /\ context_stack = << >>

\* PseudocodeEngine::execute on a fresh engine
ExecuteFresh(code) == Fresh /\ ExecuteProgram(code, MaxRepeatCalls)

\* add_input for every line of `inputs`, set_virtual_file for every file of
\* `files`, on the interpreter `st`
Supplied(st, inputs, files) ==
    [st EXCEPT !.input_queue = @ \o inputs, !.virtual_files = files @@ @]

\* the host supplies again what it supplied before the run that `last`
\* records, and calls execute with the same code
ExecuteAgain ==
    /\ last.op = "execute"
    /\ Len(last.ran) > 0
    /\ \E run \in { ExecuteLoop([Supplied(Interp, last.ran[1].before.input_queue,
                                          last.ran[1].before.virtual_files)
                                    EXCEPT !.output_buffer = << >>],
                                 [j \in DOMAIN last.ran |-> last.ran[j].stmt],
                                 1, << >>) } :
           /\ SetInterp(run.st)
           /\ last' = [op |-> "execute_again", calls |-> last.calls + 1,
                       ran |-> run.ran, errors |-> ErrorsOf(run.ran, 1),
                       output |-> run.st.output_buffer,
                       first |-> [ran |-> last.ran, errors |-> last.errors,
                                  output |-> last.output]]
    /\ UNCHANGED << parsed_statements, current_statement_index >>

RepeatPrograms ==
    { Parsed(<< Declare("x", TInteger), Assign("x", Num(2)), Output(<< Var("x") >>) >>),
      Parsed(<< FuncP, Output(<< FunctionCall("p", << >>) >>) >>),
      Parsed(<< ProcP, Call("p", << Num(1) >>) >>),
      Parsed(<< Constant("PI", << Num(3) >>), Output(<< Var("PI") >>) >>),
      Parsed(<< Declare("x", TInteger), Assign("x", Num(1)), Constant("x", << >>) >>),
      Parsed(<< OpenFile(FileF, "WRITE"), WriteFile(FileF, << Str(<< "n" >>) >>),
                CloseFile(FileF) >>),
      Parsed(<< OpenFile(FileF, "READ"), Declare("s", TString), ReadFile(FileF, "s"),
                Output(<< Var("s") >>) >>),
      Parsed(<< OpenFile(FileF, "READ"), Declare("s", TString), ReadFile(FileF, "s"),
                Output(<< Var("s") >>), CloseFile(FileF) >>),
      Parsed(<< Declare("s", TString), Input("s"), Output(<< Var("s") >>) >>),
      Parsed(<< Declare("s", TString), Declare("t", TString), Input("s"), Input("t"),
                Output(<< Var("s"), Var("t") >>) >>),
      Parsed(<< For("i", Num(1), Num(2), << >>, << Output(<< Var("i") >>) >>) >>),
      Parsed(<< Assign("u", Num(1)) >>) }

NextRepeat ==
    \/ \E input \in InputLines : AddInput(input)
    \/ \E content \in HostContents : SetVirtualFile(<< "f" >>, content)
    \/ \E code \in RepeatPrograms : ExecuteFresh(code)
    \/ ExecuteAgain

SpecRepeat == Init /\ [][NextRepeat]_vars

-----------------------------------------------------------------------------
(* Reader programs: the host stores a file while the program, run step by   *)
(* step, has it open FOR READ                                               *)

ReaderPrograms ==
    { Parsed(<< OpenFile(FileF, "WRITE"), WriteFile(FileF, << Str(<< "n" >>) >>),
                CloseFile(FileF), OpenFile(FileF, "READ"), Declare("s", TString),
                ReadFile(FileF, "s"), CloseFile(FileF) >>),
      Parsed(<< OpenFile(FileF, "READ"), CloseFile(FileF), OpenFile(FileF, "READ"),
                CloseFile(FileF) >>) }

NextReader ==
    \/ \E code \in ReaderPrograms : ParseForExecution(code)
    \/ ExecuteNextStatement
    \/ \E content \in HostContents \cup HostLines : SetVirtualFile(<< "f" >>, content)

SpecReader == Init /\ [][NextReader]_vars

-----------------------------------------------------------------------------
(* Failed reads: READFILE into a variable that cannot take the line, then   *)
(* into one that can                                                        *)

\* OPENFILE "f" FOR mode, READFILE "f", <name>, READFILE "f", s, OUTPUT s;
\* n is an INTEGER, s a STRING and u is not declared
FailedReadProgram(mode, name) ==
    Parsed(<< Declare("n", TInteger), Declare("s", TString), OpenFile(FileF, mode),
              ReadFile(FileF, name), ReadFile(FileF, "s"), Output(<< Var("s") >>),
              ReadFile(FileF, name) >>)

FailedReadPrograms ==
    { FailedReadProgram(mode, name) : mode \in {"READ", "RANDOM"},
                                      name \in {"n", "u", "s"} }

NextFailedRead ==
    \/ \E content \in HostLines \cup HostContents : SetVirtualFile(<< "f" >>, content)
    \/ \E code \in FailedReadPrograms : ExecuteProgram(code, MaxCalls)
    \/ \E code \in FailedReadPrograms : ParseForExecution(code)
    \/ ExecuteNextStatement

SpecFailedRead == Init /\ [][NextFailedRead]_vars

-----------------------------------------------------------------------------
(* Locked programs: a name is made constant, then a statement other than a  *)
(* plain assignment stores into it                                          *)

\* DECLARE x : STRING ; x <- "a" ; CONSTANT x
LockX == << Declare("x", TString), Assign("x", Str(<< "a" >>)), Constant("x", << >>) >>

\* DECLARE v : INTEGER ; v <- 1 ; DECLARE p : INTEGER ; p <- ^v ; CONSTANT p
\* (a plain assignment does not look at the declared type)
LockP == << Declare("v", TInteger), Assign("v", Num(1)), Declare("p", TInteger),
            Assign("p", PointerRef(Var("v"))), Constant("p", << >>) >>

\* CONSTANT k <- 5
LockK == << Constant("k", << Num(5) >>) >>

LockedPrograms ==
    { Parsed(LockX \o << Assign("x", Str(<< "b" >>)) >>),
      Parsed(LockX \o << Input("x") >>),
      Parsed(LockX \o << OpenFile(FileF, "READ"), ReadFile(FileF, "x") >>),
      Parsed(LockX \o << OpenFile(FileF, "RANDOM"), GetRecord(FileF, "x") >>),
      Parsed(LockX \o << Declare("x", TString) >>),
      Parsed(LockX \o << Declare("x", TInteger) >>),
      Parsed(LockK \o << For("k", Num(1), Num(2), << >>, << Output(<< Var("k") >>) >>) >>),
      Parsed(LockK \o << For("k", Num(1), Num(2), << >>, << FailingStmt >>) >>),
      Parsed(LockK \o << Assign("k", Num(6)), Output(<< Var("k") >>) >>),
      Parsed(LockP \o << Assign("p", Num(0)), AssignDeref("p", Num(2)) >>) }

NextLocked ==
    \/ \E input \in InputLines : AddInput(input)
    \/ \E content \in HostContents : SetVirtualFile(<< "f" >>, content)
    \/ \E code \in LockedPrograms : ExecuteProgram(code, MaxCalls)

SpecLocked == Init /\ [][NextLocked]_vars

-----------------------------------------------------------------------------
(* Position programs: one file statement per engine call, in any order      *)

\* an address beyond the end of every content a behaviour builds
FarAddress == 2 * RecordSize * MaxPositionCalls

PositionStatements ==
    { ReadFile(FileF, "s"), WriteFile(FileF, << Str(<< "a", "b" >>) >>),
      Seek(FileF, Num(1)), Seek(FileF, Num(FarAddress)), Seek(FileF, Un("Negate", Num(1))),
      GetRecord(FileF, "s"), PutRecord(FileF, "s"), CloseFile(FileF) }

\* DECLARE s : STRING, s <- 255 times "a" and U+00E9 (257 bytes), OPENFILE
PositionPrograms ==
    { Parsed(<< Declare("s", TString),
                Assign("s", Str(Repeat("a", RecordSize - 1) \o EAcute)),
                OpenFile(FileF, mode) >>) :
          mode \in { "READ", "WRITE", "RANDOM" } }
    \cup { Parsed(<< stmt >>) : stmt \in PositionStatements }

NextPosition ==
    \/ \E content \in HostLines : SetVirtualFile(<< "f" >>, content)
    \/ \E code \in PositionPrograms : ExecuteProgram(code, MaxPositionCalls)

SpecPosition == Init /\ [][NextPosition]_vars

-----------------------------------------------------------------------------
(* Parser: statements, and the loops over the statements of a block         *)

TNumber(n) == [t |-> "Number", n |-> n]

\* Type::Custom(name)
TCustom(name) == [t |-> "Custom", name |-> name]

\* Result<Type, String> with the parser left behind
TOk(ty, p) == [ok |-> TRUE, ty |-> ty, p |-> p]

TErr(p) == [ok |-> FALSE, ty |-> TInteger, p |-> p]

\* Parser::expect
expect(p, expected) ==
    IF current_token(p) = expected THEN [ok |-> TRUE, p |-> advance(p)]
    ELSE [ok |-> FALSE, p |-> p]

\* matches!(self.current_token(), Token::Keyword(kw) if kw == ..)
IsKeyword(p, names) ==
    current_token(p).t = "Keyword" /\ current_token(p).name \in names

\* `if matches!(self.current_token(), Token::Newline) { self.advance(); }`
TrailingNewline(p) == IF current_token(p).t = "Newline" THEN advance(p) ELSE p

\* `while matches!(self.current_token(), Token::Newline) { self.advance(); }`
RECURSIVE SkipNewlines(_)
SkipNewlines(p) == IF current_token(p).t = "Newline" THEN SkipNewlines(advance(p)) ELSE p

\* Parser::parse_simple_types
parse_simple_types(p) ==
    IF current_token(p).t = "Identifier" THEN TOk(TCustom(current_token(p).name), advance(p))
    ELSE IF current_token(p).t = "Keyword"
    THEN CASE current_token(p).name = "INTEGER" -> TOk(TInteger, advance(p))
           [] current_token(p).name = "STRING" -> TOk(TString, advance(p))
           [] current_token(p).name = "CHAR" -> TOk(TChar, advance(p))
           [] current_token(p).name \in {"BOOLEAN", "BOOL"} -> TOk(TBoolean, advance(p))
           [] current_token(p).name \in {"REAL", "DATE"} ->
                 TOk([t |-> current_token(p).name], advance(p))
           [] OTHER -> TErr(advance(p))
    ELSE TErr(p)

RECURSIVE parse_type(_), ArrayBrackets(_, _), ArrayBounds(_, _)

\* the `loop` over the bounds inside one pair of brackets of parse_type
ArrayBounds(p, dimensions) ==
    Bind(parse_expression(p), LAMBDA s :
    IF ~s.ok THEN TErr(s.p)
    ELSE IF current_token(s.p).t \notin {"Colon", "Comma"} THEN TErr(s.p)
    ELSE Bind(parse_expression(advance(s.p)), LAMBDA e :
         IF ~e.ok THEN TErr(e.p)
         ELSE IF current_token(e.p).t = "Comma"
         THEN ArrayBounds(advance(e.p), Append(dimensions, << s.e, e.e >>))
         ELSE IF current_token(e.p).t = "RightBracket"
         THEN [ok |-> TRUE, dimensions |-> Append(dimensions, << s.e, e.e >>),
               p |-> advance(e.p)]
         ELSE TErr(e.p)))

\* `while matches!(self.current_token(), Token::LeftBracket) { .. }`
ArrayBrackets(p, dimensions) ==
    IF current_token(p).t # "LeftBracket"
    THEN [ok |-> TRUE, dimensions |-> dimensions, p |-> p]
    ELSE Bind(ArrayBounds(advance(p), dimensions), LAMBDA r :
         IF ~r.ok THEN r ELSE ArrayBrackets(r.p, r.dimensions))

\* Parser::parse_type
parse_type(p) ==
    IF current_token(p) = TKeyword("ARRAY")
    THEN Bind(ArrayBrackets(advance(p), << >>), LAMBDA d :
         IF ~d.ok THEN TErr(d.p)
         ELSE Bind(expect(d.p, TKeyword("OF")), LAMBDA o :
              IF ~o.ok THEN TErr(o.p)
              ELSE Bind(parse_type(o.p), LAMBDA t :
                   IF ~t.ok THEN t ELSE TOk(TArray(d.dimensions, t.ty), t.p))))
    ELSE parse_simple_types(p)

\* the loops `while !matches!(current_token, <end keyword>) { .. }` over the
\* statements of a block (THEN and ELSE parts, WHILE, FOR, REPEAT, OTHERWISE,
\* function and procedure bodies): leading newlines, the end keyword, one
\* statement, one trailing newline
RECURSIVE BlockLoop(_, _, _)
BlockLoop(p, ends, body) ==
    IF IsKeyword(p, ends) THEN [ok |-> TRUE, body |-> body, p |-> p]
    ELSE IF IsKeyword(SkipNewlines(p), ends)
    THEN [ok |-> TRUE, body |-> body, p |-> SkipNewlines(p)]
    ELSE Bind(parse_statement(SkipNewlines(p)), LAMBDA r :
         IF ~r.ok THEN Fail(r)
         ELSE IF TrailingNewline(r.p).pos = p.pos THEN Spins(r.p)
         ELSE BlockLoop(TrailingNewline(r.p), ends, Append(body, r.stmt)))

\* Parser::parse_one_declare
parse_one_declare(p) ==
    IF current_token(p).t # "Identifier" THEN SErr(p)
    ELSE Bind(IF current_token(advance(p)).t = "LeftArrow"
              THEN parse_expression(advance(advance(p)))
              ELSE [ok |-> TRUE, p |-> advance(p)], LAMBDA i :
         IF ~i.ok THEN SErr(i.p)
         ELSE Bind(expect(i.p, Tok("Colon")), LAMBDA c :
              IF ~c.ok THEN SErr(c.p)
              ELSE Bind(parse_type(c.p), LAMBDA t :
                   IF ~t.ok THEN SErr(t.p)
                   ELSE SOk([Declare(current_token(p).name, t.ty) EXCEPT
                                !.initial_value = IF "e" \in DOMAIN i THEN << i.e >>
                                                  ELSE << >>],
                            t.p))))

\* `while matches!(self.current_token(), Token::Comma) { .. }` of
\* parse_declare, which returns the first declaration
RECURSIVE DeclareRest(_, _)
DeclareRest(p, first) ==
    IF current_token(p).t # "Comma" THEN SOk(first, p)
    ELSE Bind(parse_one_declare(advance(p)), LAMBDA r :
         IF ~r.ok THEN r ELSE DeclareRest(r.p, first))

\* Parser::parse_declare
parse_declare(p) ==
    Bind(expect(p, TKeyword("DECLARE")), LAMBDA k :
    IF ~k.ok THEN SErr(k.p)
    ELSE Bind(parse_one_declare(k.p), LAMBDA r :
         IF ~r.ok THEN r ELSE DeclareRest(r.p, r.stmt)))

\* Parser::parse_input
parse_input(p) ==
    Bind(expect(p, TKeyword("INPUT")), LAMBDA k :
    IF ~k.ok THEN SErr(k.p)
    ELSE IF current_token(k.p).t = "Identifier"
    THEN SOk(Input(current_token(k.p).name), advance(k.p))
    ELSE SErr(k.p))

\* Parser::parse_return
parse_return(p) ==
    Bind(expect(p, TKeyword("RETURN")), LAMBDA k :
    IF ~k.ok THEN SErr(k.p)
    ELSE IF current_token(k.p).t \in {"Newline", "EOF"}
            \/ IsKeyword(k.p, {"ENDFUNCTION", "ENDIF", "ELSE"})
    THEN SOk(Return(<< >>), k.p)
    ELSE Bind(parse_expression(k.p), LAMBDA r :
         IF ~r.ok THEN SErr(r.p) ELSE SOk(Return(<< r.e >>), r.p)))

\* the `loop` over the arguments of parse_call
RECURSIVE CallArguments(_, _)
CallArguments(p, args) ==
    Bind(parse_expression(p), LAMBDA r :
    IF ~r.ok THEN [ok |-> FALSE, args |-> args, p |-> r.p]
    ELSE IF current_token(r.p).t = "Comma"
    THEN CallArguments(advance(r.p), Append(args, r.e))
    ELSE IF current_token(r.p).t = "RightParen"
    THEN [ok |-> TRUE, args |-> Append(args, r.e), p |-> advance(r.p)]
    ELSE [ok |-> FALSE, args |-> args, p |-> r.p])

\* Parser::parse_call; the evaluator reads no arguments as none
parse_call(p) ==
    Bind(expect(p, TKeyword("CALL")), LAMBDA k :
    IF ~k.ok THEN SErr(k.p)
    ELSE IF current_token(k.p).t # "Identifier" THEN SErr(k.p)
    ELSE IF current_token(advance(k.p)).t # "LeftParen"
    THEN SOk(Call(current_token(k.p).name, << >>), advance(k.p))
    ELSE IF current_token(advance(advance(k.p))).t = "RightParen"
    THEN SOk(Call(current_token(k.p).name, << >>), advance(advance(advance(k.p))))
    ELSE Bind(CallArguments(advance(advance(k.p)), << >>), LAMBDA a :
         IF ~a.ok THEN SErr(a.p) ELSE SOk(Call(current_token(k.p).name, a.args), a.p)))

\* the indices of parse_assignment: `[e, e, ..]`, or nothing
RECURSIVE IndexList(_, _)
IndexList(p, idxs) ==
    Bind(parse_expression(p), LAMBDA r :
    IF ~r.ok THEN [ok |-> FALSE, has |-> TRUE, idxs |-> idxs, p |-> r.p]
    ELSE IF current_token(r.p).t = "Comma" THEN IndexList(advance(r.p), Append(idxs, r.e))
    ELSE IF current_token(r.p).t = "RightBracket"
    THEN [ok |-> TRUE, has |-> TRUE, idxs |-> Append(idxs, r.e), p |-> advance(r.p)]
    ELSE [ok |-> FALSE, has |-> TRUE, idxs |-> idxs, p |-> r.p])

\* Parser::parse_assignment, for targets without a field
parse_assignment(p) ==
    IF current_token(p).t # "Identifier" THEN SErr(p)
    ELSE Bind(IF current_token(advance(p)).t = "LeftBracket"
              THEN IndexList(advance(advance(p)), << >>)
              ELSE [ok |-> TRUE, has |-> FALSE, idxs |-> << >>, p |-> advance(p)],
              LAMBDA i :
         IF ~i.ok THEN SErr(i.p)
         ELSE Bind(IF current_token(i.p).t = "Caret" THEN advance(i.p) ELSE i.p, LAMBDA q :
              IF current_token(q).t # "LeftArrow" THEN SErr(q)
              ELSE Bind(parse_expression(advance(q)), LAMBDA v :
                   IF ~v.ok THEN SErr(v.p)
                   ELSE SOk([s |-> "Assign", name |-> current_token(p).name,
                             has_indices |-> i.has, indices |-> i.idxs,
                             expression |-> v.e, is_pointer_deref |-> q.pos # i.p.pos],
                            v.p))))

\* the ELSE part of parse_if: `ELSE IF ..` nests an IF, ELSE has a block
ElsePart(p) ==
    IF ~IsKeyword(p, {"ELSE"}) THEN [ok |-> TRUE, has |-> FALSE, body |-> << >>, p |-> p]
    ELSE IF IsKeyword(advance(p), {"IF"})
    THEN Bind(parse_if(advance(p)), LAMBDA r :
         IF ~r.ok THEN r
         ELSE [ok |-> TRUE, has |-> TRUE, body |-> << r.stmt >>, p |-> r.p])
    ELSE Bind(BlockLoop(advance(p), {"ENDIF"}, << >>), LAMBDA b :
         IF ~b.ok THEN b
         ELSE [ok |-> TRUE, has |-> TRUE, body |-> b.body, p |-> b.p])

\* Parser::parse_if
parse_if(p) ==
    Bind(expect(p, TKeyword("IF")), LAMBDA k :
    IF ~k.ok THEN SErr(k.p)
    ELSE Bind(parse_expression(k.p), LAMBDA c :
    IF ~c.ok THEN SErr(c.p)
    ELSE Bind(expect(c.p, TKeyword("THEN")), LAMBDA t :
    IF ~t.ok THEN SErr(t.p)
    ELSE Bind(BlockLoop(t.p, {"ENDIF", "ELSE"}, << >>), LAMBDA b :
    IF ~b.ok THEN b
    ELSE Bind(ElsePart(b.p), LAMBDA e :
    IF ~e.ok THEN Fail(e)
    ELSE Bind(expect(e.p, TKeyword("ENDIF")), LAMBDA x :
    IF ~x.ok THEN SErr(x.p)
    ELSE SOk(IF e.has THEN If(c.e, b.body, e.body) ELSE IfThen(c.e, b.body),
             TrailingNewline(x.p))))))))

\* Parser::parse_while
parse_while(p) ==
    Bind(expect(p, TKeyword("WHILE")), LAMBDA k :
    IF ~k.ok THEN SErr(k.p)
    ELSE Bind(parse_expression(k.p), LAMBDA c :
    IF ~c.ok THEN SErr(c.p)
    ELSE Bind(BlockLoop(c.p, {"ENDWHILE"}, << >>), LAMBDA b :
    IF ~b.ok THEN b
    ELSE Bind(expect(b.p, TKeyword("ENDWHILE")), LAMBDA x :
    IF ~x.ok THEN SErr(x.p) ELSE SOk(While(c.e, b.body), x.p)))))

\* the optional STEP of parse_for
StepPart(p) ==
    IF ~IsKeyword(p, {"STEP"}) THEN [ok |-> TRUE, step |-> << >>, p |-> p]
    ELSE Bind(parse_expression(advance(p)), LAMBDA r :
         [ok |-> r.ok, step |-> << r.e >>, p |-> r.p])

\* Parser::parse_for
parse_for(p) ==
    Bind(expect(p, TKeyword("FOR")), LAMBDA k :
    IF ~k.ok THEN SErr(k.p)
    ELSE IF current_token(k.p).t # "Identifier" THEN SErr(k.p)
    ELSE Bind(expect(advance(k.p), Tok("LeftArrow")), LAMBDA a :
    IF ~a.ok THEN SErr(a.p)
    ELSE Bind(parse_expression(a.p), LAMBDA start :
    IF ~start.ok THEN SErr(start.p)
    ELSE Bind(expect(start.p, TKeyword("TO")), LAMBDA to :
    IF ~to.ok THEN SErr(to.p)
    ELSE Bind(parse_expression(to.p), LAMBDA end :
    IF ~end.ok THEN SErr(end.p)
    ELSE Bind(StepPart(end.p), LAMBDA step :
    IF ~step.ok THEN SErr(step.p)
    ELSE Bind(BlockLoop(step.p, {"NEXT"}, << >>), LAMBDA b :
    IF ~b.ok THEN b
    ELSE Bind(expect(b.p, TKeyword("NEXT")), LAMBDA x :
    IF ~x.ok THEN SErr(x.p)
    ELSE IF current_token(x.p).t # "Identifier" THEN SErr(x.p)
    ELSE IF current_token(x.p).name # current_token(k.p).name THEN SErr(advance(x.p))
    ELSE SOk(For(current_token(k.p).name, start.e, end.e, step.step, b.body),
             advance(x.p))))))))))

\* Parser::parse_repeat_until
parse_repeat_until(p) ==
    Bind(expect(p, TKeyword("REPEAT")), LAMBDA k :
    IF ~k.ok THEN SErr(k.p)
    ELSE Bind(BlockLoop(k.p, {"UNTIL"}, << >>), LAMBDA b :
    IF ~b.ok THEN b
    ELSE Bind(expect(b.p, TKeyword("UNTIL")), LAMBDA x :
    IF ~x.ok THEN SErr(x.p)
    ELSE Bind(parse_expression(x.p), LAMBDA c :
    IF ~c.ok THEN SErr(c.p) ELSE SOk(RepeatUntil(b.body, c.e), c.p)))))

\* the token after the current one is a colon: the current token is the
\* label of the next branch
LabelAhead(p) ==
    /\ current_token(p).t \in {"Identifier", "Number", "String", "Char"}
    /\ p.pos + 1 < Len(p.tokens)
    /\ p.tokens[p.pos + 2].t = "Colon"

\* the loop over the statements of one branch of parse_case
RECURSIVE BranchLoop(_, _)
BranchLoop(p, body) ==
    IF IsKeyword(p, {"ENDCASE", "OTHERWISE"}) THEN [ok |-> TRUE, body |-> body, p |-> p]
    ELSE IF IsKeyword(SkipNewlines(p), {"ENDCASE", "OTHERWISE"})
            \/ LabelAhead(SkipNewlines(p))
    THEN [ok |-> TRUE, body |-> body, p |-> SkipNewlines(p)]
    ELSE Bind(parse_statement(SkipNewlines(p)), LAMBDA r :
         IF ~r.ok THEN Fail(r)
         ELSE IF TrailingNewline(r.p).pos = p.pos THEN Spins(r.p)
         ELSE BranchLoop(TrailingNewline(r.p), Append(body, r.stmt)))

\* `while !matches!(current_token, ENDCASE) { .. }` of parse_case: OTHERWISE
\* with its block ends the loop, anything else starts a branch
RECURSIVE BranchesLoop(_, _)
BranchesLoop(p, cases) ==
    IF IsKeyword(p, {"ENDCASE"})
    THEN [ok |-> TRUE, cases |-> cases, otherwise |-> << >>, p |-> p]
    ELSE IF IsKeyword(p, {"OTHERWISE"})
    THEN Bind(expect(advance(p), Tok("Colon")), LAMBDA c :
         IF ~c.ok THEN SErr(c.p)
         ELSE Bind(BlockLoop(c.p, {"ENDCASE"}, << >>), LAMBDA b :
              IF ~b.ok THEN b
              ELSE [ok |-> TRUE, cases |-> cases, otherwise |-> << b.body >>, p |-> b.p]))
    ELSE Bind(parse_expression(p), LAMBDA v :
         IF ~v.ok THEN SErr(v.p)
         ELSE Bind(expect(v.p, Tok("Colon")), LAMBDA c :
              IF ~c.ok THEN SErr(c.p)
              ELSE Bind(BranchLoop(c.p, << >>), LAMBDA b :
                   IF ~b.ok THEN b
                   ELSE IF b.p.pos = p.pos THEN Spins(b.p)
                   ELSE BranchesLoop(b.p, Append(cases, CaseBranch(v.e, b.body))))))

\* Parser::parse_case
parse_case(p) ==
    Bind(expect(p, TKeyword("CASE")), LAMBDA k :
    IF ~k.ok THEN SErr(k.p)
    ELSE Bind(expect(k.p, TKeyword("OF")), LAMBDA o :
    IF ~o.ok THEN SErr(o.p)
    ELSE Bind(parse_expression(o.p), LAMBDA e :
    IF ~e.ok THEN SErr(e.p)
    ELSE Bind(BranchesLoop(e.p, << >>), LAMBDA b :
    IF ~b.ok THEN Fail(b)
    ELSE Bind(expect(b.p, TKeyword("ENDCASE")), LAMBDA x :
    IF ~x.ok THEN SErr(x.p) ELSE SOk(Case(e.e, b.cases, b.otherwise), x.p))))))

\* the `loop` over the parameters of a function or procedure declaration;
\* it leaves the closing parenthesis to the caller
RECURSIVE ParamLoop(_, _)
ParamLoop(p, params) ==
    IF current_token(p).t # "Identifier" THEN [ok |-> FALSE, params |-> params, p |-> p]
    ELSE Bind(expect(advance(p), Tok("Colon")), LAMBDA c :
         IF ~c.ok THEN [ok |-> FALSE, params |-> params, p |-> c.p]
         ELSE Bind(parse_type(c.p), LAMBDA t :
              IF ~t.ok THEN [ok |-> FALSE, params |-> params, p |-> t.p]
              ELSE IF current_token(t.p).t = "Comma"
              THEN ParamLoop(advance(t.p),
                             Append(params, Param(current_token(p).name, t.ty)))
              ELSE IF current_token(t.p).t = "RightParen"
              THEN [ok |-> TRUE, p |-> t.p,
                    params |-> Append(params, Param(current_token(p).name, t.ty))]
              ELSE [ok |-> FALSE, params |-> params, p |-> t.p]))

\* the name and the parameter list of a function or procedure declaration,
\* from the name to the closing parenthesis
Signature(p) ==
    IF current_token(p).t # "Identifier" THEN [ok |-> FALSE, params |-> << >>, p |-> p]
    ELSE Bind(expect(advance(p), Tok("LeftParen")), LAMBDA l :
         IF ~l.ok THEN [ok |-> FALSE, params |-> << >>, p |-> l.p]
         ELSE Bind(IF current_token(l.p).t = "RightParen"
                   THEN [ok |-> TRUE, params |-> << >>, p |-> l.p]
                   ELSE ParamLoop(l.p, << >>), LAMBDA a :
              IF ~a.ok THEN a
              ELSE Bind(expect(a.p, Tok("RightParen")), LAMBDA r :
                   [ok |-> r.ok, params |-> a.params, p |-> r.p])))

\* Parser::parse_procedure_declaration
parse_procedure_declaration(p) ==
    Bind(expect(p, TKeyword("PROCEDURE")), LAMBDA k :
    IF ~k.ok THEN SErr(k.p)
    ELSE Bind(Signature(k.p), LAMBDA g :
    IF ~g.ok THEN SErr(g.p)
    ELSE Bind(BlockLoop(g.p, {"ENDPROCEDURE"}, << >>), LAMBDA b :
    IF ~b.ok THEN b
    ELSE Bind(expect(b.p, TKeyword("ENDPROCEDURE")), LAMBDA x :
    IF ~x.ok THEN SErr(x.p)
    ELSE SOk(ProcedureDeclaration(current_token(k.p).name, g.params, b.body), x.p)))))

\* Parser::parse_function_declaration
parse_function_declaration(p) ==
    Bind(expect(p, TKeyword("FUNCTION")), LAMBDA k :
    IF ~k.ok THEN SErr(k.p)
    ELSE Bind(Signature(k.p), LAMBDA g :
    IF ~g.ok THEN SErr(g.p)
    ELSE Bind(expect(g.p, TKeyword("RETURNS")), LAMBDA r :
    IF ~r.ok THEN SErr(r.p)
    ELSE Bind(parse_type(r.p), LAMBDA t :
    IF ~t.ok THEN SErr(t.p)
    ELSE Bind(BlockLoop(t.p, {"ENDFUNCTION"}, << >>), LAMBDA b :
    IF ~b.ok THEN b
    ELSE Bind(expect(b.p, TKeyword("ENDFUNCTION")), LAMBDA x :
    IF ~x.ok THEN SErr(x.p)
    ELSE SOk(FunctionDeclaration(current_token(k.p).name, g.params, t.ty, b.body),
             x.p)))))))

\* the loop over the fields of a record in parse_type_declaration
RECURSIVE FieldLoop(_, _)
FieldLoop(p, fields) ==
    IF IsKeyword(p, {"ENDTYPE"}) THEN [ok |-> TRUE, fields |-> fields, p |-> p]
    ELSE IF IsKeyword(SkipNewlines(p), {"ENDTYPE"})
    THEN [ok |-> TRUE, fields |-> fields, p |-> SkipNewlines(p)]
    ELSE IF ~IsKeyword(SkipNewlines(p), {"DECLARE"}) THEN SErr(SkipNewlines(p))
    ELSE IF current_token(advance(SkipNewlines(p))).t # "Identifier"
    THEN SErr(advance(SkipNewlines(p)))
    ELSE Bind(expect(advance(advance(SkipNewlines(p))), Tok("Colon")), LAMBDA c :
         IF ~c.ok THEN SErr(c.p)
         ELSE Bind(parse_type(c.p), LAMBDA t :
              IF ~t.ok THEN SErr(t.p)
              ELSE IF TrailingNewline(t.p).pos = p.pos THEN Spins(t.p)
              ELSE FieldLoop(TrailingNewline(t.p),
                             Append(fields,
                                    [name |-> current_token(advance(SkipNewlines(p))).name,
                                     type_name |-> t.ty]))))

\* the `loop` over the values of an enumeration in parse_type_declaration
RECURSIVE EnumLoop(_, _)
EnumLoop(p, values) ==
    IF current_token(p).t \notin {"Identifier", "Keyword"}
    THEN [ok |-> FALSE, values |-> values, p |-> p]
    ELSE IF current_token(advance(p)).t = "Comma"
    THEN EnumLoop(advance(advance(p)), Append(values, current_token(p).name))
    ELSE IF current_token(advance(p)).t = "RightParen"
    THEN [ok |-> TRUE, values |-> Append(values, current_token(p).name),
          p |-> advance(advance(p))]
    ELSE [ok |-> FALSE, values |-> values, p |-> advance(p)]

\* TYPE name ^type and TYPE name SET OF type, with or without the `=`
PointerOrSet(name, p) ==
    IF current_token(p).t = "Caret"
    THEN Bind(parse_type(advance(p)), LAMBDA t :
         IF ~t.ok THEN SErr(t.p)
         ELSE SOk(TypeDeclaration(name, [variant |-> "Pointer", points_to |-> t.ty]), t.p))
    ELSE Bind(expect(advance(p), TKeyword("OF")), LAMBDA o :
         IF ~o.ok THEN SErr(o.p)
         ELSE Bind(parse_type(o.p), LAMBDA t :
              IF ~t.ok THEN SErr(t.p)
              ELSE SOk(TypeDeclaration(name, [variant |-> "Set", element_type |-> t.ty]),
                       t.p)))

\* Parser::parse_type_declaration
parse_type_declaration(p) ==
    Bind(expect(p, TKeyword("TYPE")), LAMBDA k :
    IF ~k.ok THEN SErr(k.p)
    ELSE IF current_token(k.p).t # "Identifier" THEN SErr(k.p)
    ELSE Bind(advance(k.p), LAMBDA q :
    IF current_token(q).t = "Equals"
    THEN IF current_token(advance(q)).t = "Caret" \/ IsKeyword(advance(q), {"SET"})
         THEN PointerOrSet(current_token(k.p).name, advance(q))
         ELSE IF current_token(advance(q)).t = "LeftParen"
         THEN Bind(EnumLoop(advance(advance(q)), << >>), LAMBDA e :
              IF ~e.ok THEN SErr(e.p)
              ELSE SOk(TypeDeclaration(current_token(k.p).name,
                                       [variant |-> "Enum", values |-> e.values]), e.p))
         ELSE SErr(advance(q))
    ELSE IF current_token(q).t = "Caret" \/ IsKeyword(q, {"SET"})
    THEN PointerOrSet(current_token(k.p).name, q)
    ELSE Bind(FieldLoop(q, << >>), LAMBDA f :
         IF ~f.ok THEN Fail(f)
         ELSE Bind(expect(f.p, TKeyword("ENDTYPE")), LAMBDA x :
              IF ~x.ok THEN SErr(x.p)
              ELSE SOk(TypeDeclaration(current_token(k.p).name,
                                       [variant |-> "Record", fields |-> f.fields]),
                       x.p)))))

-----------------------------------------------------------------------------
(* Sources of blocks: whole, cut short, with a token changed or dropped     *)

NL == Tok("Newline")

BlockSources ==
    { << TKeyword("IF"), TIdentifier("x"), TKeyword("THEN"), NL, TKeyword("BREAK"), NL,
         TKeyword("ELSE"), NL, TKeyword("OUTPUT"), TNumber(1), NL, TKeyword("ENDIF"), NL >>,
      << TKeyword("IF"), TIdentifier("x"), TKeyword("THEN"), NL,
         TKeyword("WHILE"), TIdentifier("x"), NL, TIdentifier("x"), Tok("LeftArrow"),
         TNumber(0), NL, TKeyword("ENDWHILE"), NL, TKeyword("ENDIF") >>,
      << TKeyword("FOR"), TIdentifier("i"), Tok("LeftArrow"), TNumber(1), TKeyword("TO"),
         TNumber(2), NL, TKeyword("CALL"), TIdentifier("p"), NL,
         TKeyword("NEXT"), TIdentifier("i") >>,
      << TKeyword("REPEAT"), NL, TKeyword("INPUT"), TIdentifier("x"), NL,
         TKeyword("UNTIL"), TIdentifier("x") >>,
      << TKeyword("CASE"), TKeyword("OF"), TIdentifier("x"), NL,
         TNumber(1), Tok("Colon"), TKeyword("BREAK"), NL,
         TNumber(2), Tok("Colon"), TKeyword("OUTPUT"), TIdentifier("x"), NL,
         TKeyword("OTHERWISE"), Tok("Colon"), TKeyword("BREAK"), NL,
         TKeyword("ENDCASE") >>,
      << TKeyword("PROCEDURE"), TIdentifier("p"), Tok("LeftParen"), Tok("RightParen"), NL,
         TKeyword("BREAK"), NL, TKeyword("ENDPROCEDURE"), NL,
         TKeyword("CALL"), TIdentifier("p"), Tok("LeftParen"), Tok("RightParen") >>,
      << TKeyword("FUNCTION"), TIdentifier("f"), Tok("LeftParen"), TIdentifier("a"),
         Tok("Colon"), TKeyword("INTEGER"), Tok("RightParen"), TKeyword("RETURNS"),
         TKeyword("INTEGER"), NL, TKeyword("RETURN"), TIdentifier("a"), NL,
         TKeyword("ENDFUNCTION") >>,
      << TKeyword("TYPE"), TIdentifier("t"), NL,
         TKeyword("DECLARE"), TIdentifier("a"), Tok("Colon"), TKeyword("INTEGER"), NL,
         TKeyword("DECLARE"), TIdentifier("b"), Tok("Colon"), TKeyword("ARRAY"),
         Tok("LeftBracket"), TNumber(1), Tok("Colon"), TNumber(2), Tok("RightBracket"),
         TKeyword("OF"), TKeyword("CHAR"), NL, TKeyword("ENDTYPE") >> }

\* the tokens that take the place of one token of a source
Strays ==
    { NL, TIdentifier("x"), TNumber(1), Tok("Colon"), Tok("LeftParen"),
      TKeyword("IF"), TKeyword("ELSE"), TKeyword("ENDIF"), TKeyword("CASE"),
      TKeyword("OTHERWISE"), TKeyword("ENDCASE"), TKeyword("BREAK"), TKeyword("TYPE") }

\* the token sequences the lexer hands over: each ends with its only EOF
TokenSequences ==
    UNION { { SubSeq(tokens, 1, n) \o << Tok("EOF") >> : n \in 0..Len(tokens) }
            \cup { SubSeq(tokens, 1, j - 1) \o SubSeq(tokens, j + 1, Len(tokens))
                       \o << Tok("EOF") >> : j \in 1..Len(tokens) }
            \cup { [tokens EXCEPT ![j] = stray] \o << Tok("EOF") >> :
                       j \in 1..Len(tokens), stray \in Strays } :
            tokens \in BlockSources }

\* PseudocodeEngine::new, with the tokens of the source the host hands over
InitBlockParser ==
    /\ variables = EmptyMap
    /\ variables_type = EmptyMap
    /\ functions = EmptyMap
    /\ procedures = EmptyMap
    /\ constants = {}
    /\ open_files = EmptyMap
    /\ virtual_files = EmptyMap
    /\ output_buffer = << >>
    /\ input_queue = << >>
    /\ call_stack = << >>
    /\ context_stack = << >>
    /\ parsed_statements = << >>
    /\ current_statement_index = 0
    /\ \E source \in TokenSequences :
           last = [op |-> "new", calls |-> 0, ran |-> << >>, errors |-> << >>,
                   output |-> << >>, source |-> source]

NextBlockParser == ParseSourceForExecution

SpecBlockParser == InitBlockParser /\ [][NextBlockParser]_vars

-----------------------------------------------------------------------------
(* Properties.  `last.ran` lists the top-level statements of the last       *)
(* engine call, each with the interpreter before and after it.              *)

RanIndex == DOMAIN last.ran

\* C1: when a top-level statement of execute(code) fails, its error is in the
\* returned errors list, no later statement of the program is executed in
\* that call, and the interpreter state is kept.
C1_StopsAtFirstError ==
    last.op = "execute" =>
        \A j \in RanIndex :
            ~last.ran[j].ok =>
                /\ \E k \in DOMAIN last.errors : last.errors[k] = last.ran[j].msg
                /\ j = Len(last.ran)
                /\ variables = last.ran[j].after.variables

\* C2: after a user function call or a CALL completes, with or without an
\* error, variables and variables_type equal the snapshot taken at entry.
C2_ScopeRestored ==
    \A j \in RanIndex :
        \A k \in DOMAIN last.ran[j].after.events :
            LET e == last.ran[j].after.events[k]
            IN  e.ev \in {"Call", "FunctionCall"} =>
                    /\ e.exit_variables = e.entry_variables
                    /\ e.exit_types = e.entry_types

Abs(n) == IF n < 0 THEN -n ELSE n

\* C3: a RETURN nested in an IF of the function body ends the call with its
\* value: abs(n) evaluates to |n| (abs(-7) = 7, abs(3) = 3).
C3_NestedReturn ==
    \A j \in RanIndex :
        \A k \in DOMAIN last.ran[j].after.events :
            LET e == last.ran[j].after.events[k]
            IN  (e.ev = "FunctionCall" /\ e.name = "abs") =>
                    /\ e.ok
                    /\ e.ret = << IntV(Abs(e.args[1].i)) >>

\* C4: once x is constant, every Assign whose target is x fails and leaves
\* the value of x as it was.
C4_ConstantAssignFails ==
    \A j \in RanIndex :
        LET r == last.ran[j]
        IN  (r.stmt.s = "Assign" /\ r.stmt.name \in r.before.constants) =>
                /\ ~r.ok
                /\ (r.stmt.name \in DOMAIN r.after.variables)
                       = (r.stmt.name \in DOMAIN r.before.variables)
                /\ r.stmt.name \in DOMAIN r.before.variables =>
                       r.after.variables[r.stmt.name] = r.before.variables[r.stmt.name]

C4_Witness ==
    \E j \in RanIndex :
        LET r == last.ran[j]
        IN  /\ r.stmt.s = "Assign"
            /\ r.stmt.name \in r.before.constants
            /\ r.stmt.name \in DOMAIN r.before.variables
            /\ ~r.ok

\* C5: after any statement, successful or not, variables and variables_type
\* have the same keys.
C5_KeysCoupled ==
    /\ DOMAIN variables = DOMAIN variables_type
    /\ \A j \in RanIndex :
           DOMAIN last.ran[j].after.variables = DOMAIN last.ran[j].after.variables_type

LiteralFile(stmt) == stmt.filename.s

IsFileStmt(stmt, kind) == stmt.s = kind /\ stmt.filename.e = "String"

\* C7: OPENFILE on a filename already in open_files fails, CLOSEFILE on a
\* filename not in open_files fails, and either way open_files (mode,
\* position and content of every handle) is unchanged.
C7_FileExclusivity ==
    \A j \in RanIndex :
        LET r == last.ran[j]
        IN  /\ (IsFileStmt(r.stmt, "OpenFile")
                 /\ LiteralFile(r.stmt) \in DOMAIN r.before.open_files) =>
                    (~r.ok /\ r.after.open_files = r.before.open_files)
            /\ (IsFileStmt(r.stmt, "CloseFile")
                 /\ LiteralFile(r.stmt) \notin DOMAIN r.before.open_files) =>
                    (~r.ok /\ r.after.open_files = r.before.open_files)

\* a CLOSEFILE on a file that is not open, and an OPENFILE FOR READ on a
\* file that is open for writing, has content and exists in virtual_files
C7_Witness ==
    /\ \E j \in RanIndex :
           LET r == last.ran[j]
           IN  /\ IsFileStmt(r.stmt, "CloseFile")
               /\ LiteralFile(r.stmt) \notin DOMAIN r.before.open_files
               /\ ~r.ok
    /\ \E j \in RanIndex :
           LET r == last.ran[j]
           IN  /\ IsFileStmt(r.stmt, "OpenFile") /\ r.stmt.mode = "READ"
               /\ LiteralFile(r.stmt) \in DOMAIN r.before.open_files
               /\ LiteralFile(r.stmt) \in DOMAIN r.before.virtual_files
               /\ r.before.open_files[LiteralFile(r.stmt)].mode = "WRITE"
               /\ r.before.open_files[LiteralFile(r.stmt)].content # << >>
               /\ ~r.ok

\* C10: OPENFILE f FOR WRITE discards what f held (the new handle is empty),
\* WRITEFILE adds exactly the text written, and CLOSEFILE stores the
\* handle's content, so the file ends up holding only the text written.
C10_WriteTruncates ==
    \A j \in RanIndex :
        LET r == last.ran[j]
            f == LiteralFile(r.stmt)
        IN  /\ (IsFileStmt(r.stmt, "OpenFile") /\ r.stmt.mode = "WRITE" /\ r.ok) =>
                    /\ f \in DOMAIN r.after.open_files
                    /\ r.after.open_files[f].content = << >>
            /\ (IsFileStmt(r.stmt, "WriteFile") /\ r.ok
                 /\ r.before.open_files[f].mode = "WRITE") =>
                    r.after.open_files[f].content =
                        r.before.open_files[f].content
                            \o WriteFileOutput(r.before, r.stmt.exprs, 1, << >>).output
            /\ (IsFileStmt(r.stmt, "CloseFile") /\ r.ok) =>
                    /\ f \in DOMAIN r.after.virtual_files
                    /\ r.after.virtual_files[f] = r.before.open_files[f].content

\* the declared bounds of dimension d of an ARRAY type, as integers
DeclaredLo(st, ty, d) == evaluate_expr(st, ty.dimensions[d][1]).v.i

DeclaredHi(st, ty, d) == evaluate_expr(st, ty.dimensions[d][2]).v.i

\* the indices of an indexed Assign or an ArrayAccess, as integers
IndexInts(st, indices) == [d \in DOMAIN indices |-> evaluate_expr(st, indices[d]).v.i]

IsIndexedAssign(r) ==
    /\ r.stmt.s = "Assign" /\ r.stmt.has_indices
    /\ r.stmt.name \in DOMAIN r.before.variables_type
    /\ r.before.variables_type[r.stmt.name].t = "ARRAY"

IsArrayOutput(r) ==
    /\ r.stmt.s = "Output" /\ Len(r.stmt.exprs) = 1
    /\ r.stmt.exprs[1].e = "ArrayAccess"
    /\ r.stmt.exprs[1].array \in DOMAIN r.before.variables_type
    /\ r.before.variables_type[r.stmt.exprs[1].array].t = "ARRAY"

\* C8: for a declared ARRAY[lo:hi] OF INTEGER with 0 <= lo <= hi, every k in
\* lo..hi and every integer v: a[k] <- v succeeds, a[k] then evaluates to v,
\* and an OUTPUT a[k] that follows prints v.
C8_ArrayRoundTrip ==
    \A j \in RanIndex :
        LET r  == last.ran[j]
            ty == r.before.variables_type[r.stmt.name]
            k  == IndexInts(r.before, r.stmt.indices)[1]
            v  == evaluate_expr(r.before, r.stmt.expression).v
            rd == evaluate_expr(r.after, ArrayAccess(r.stmt.name, r.stmt.indices))
        IN  (/\ IsIndexedAssign(r)
             /\ Len(ty.dimensions) = 1 /\ ty.element_type = TInteger
             /\ Len(r.stmt.indices) = 1
             /\ 0 <= DeclaredLo(r.before, ty, 1)
             /\ DeclaredLo(r.before, ty, 1) <= k /\ k <= DeclaredHi(r.before, ty, 1)
             /\ v.k = "Integer") =>
                /\ r.ok
                /\ rd.ok /\ rd.v = v
                /\ (j + 1 \in RanIndex /\ IsArrayOutput(last.ran[j + 1])
                     /\ last.ran[j + 1].stmt.exprs[1].indices = r.stmt.indices) =>
                        /\ last.ran[j + 1].ok
                        /\ last.ran[j + 1].after.output_buffer =
                               last.ran[j + 1].before.output_buffer
                                   \o IntToString(v.i) \o << "\n" >>

\* a[hi] <- -3 in an array whose lower bound is not 0 and whose upper bound
\* is above it, read back and printed
C8_Witness ==
    \E j \in RanIndex :
        LET r  == last.ran[j]
            ty == r.before.variables_type[r.stmt.name]
        IN  /\ IsIndexedAssign(r) /\ r.ok
            /\ Len(ty.dimensions) = 1
            /\ DeclaredLo(r.before, ty, 1) = 1
            /\ DeclaredHi(r.before, ty, 1) > 1
            /\ r.stmt.indices = << Num(DeclaredHi(r.before, ty, 1)) >>
            /\ r.after.variables[r.stmt.name].data[DeclaredHi(r.before, ty, 1)] = IntV(-3)
            /\ output_buffer = << "-", "3", "\n" >>

\* the indices miss the declared range in some dimension, or their number
\* is not the number of dimensions
BadIndices(st, ty, indices) ==
    \/ Len(indices) # Len(ty.dimensions)
    \/ \E d \in DOMAIN indices :
           \/ IndexInts(st, indices)[d] < DeclaredLo(st, ty, d)
           \/ IndexInts(st, indices)[d] > DeclaredHi(st, ty, d)

\* C9: an indexed assignment or an indexed read fails and leaves the array
\* (all of variables) unchanged when an index is below the lower or above
\* the upper bound of its dimension, or the number of indices is not the
\* number of dimensions, whatever the flat offset would be.
C9_BadIndexRejected ==
    \A j \in RanIndex :
        LET r == last.ran[j]
        IN  /\ (/\ IsIndexedAssign(r)
                 /\ BadIndices(r.before, r.before.variables_type[r.stmt.name],
                               r.stmt.indices)) =>
                    /\ ~r.ok
                    /\ r.after.variables = r.before.variables
            /\ (/\ IsArrayOutput(r)
                 /\ BadIndices(r.before, r.before.variables_type[r.stmt.exprs[1].array],
                               r.stmt.exprs[1].indices)) =>
                    /\ ~r.ok
                    /\ r.after.variables = r.before.variables
                    /\ r.after.output_buffer = r.before.output_buffer

\* a[1, MaxCol + 1] in ARRAY[1:MaxRow, 1:MaxCol]: the row-major offset MaxCol
\* lies inside the data, the assignment and the read are both rejected
C9_Witness ==
    \E j \in RanIndex :
        LET r  == last.ran[j]
            ty == r.before.variables_type[r.stmt.name]
        IN  /\ IsIndexedAssign(r) /\ ~r.ok
            /\ Len(ty.dimensions) = 2
            /\ r.stmt.indices = << Num(1), Num(DeclaredHi(r.before, ty, 2) + 1) >>
            /\ DeclaredHi(r.before, ty, 2) < Len(r.before.variables[r.stmt.name].data)
            /\ j + 1 \in RanIndex
            /\ IsArrayOutput(last.ran[j + 1]) /\ ~last.ran[j + 1].ok

-----------------------------------------------------------------------------
(* CLOSEFILE writes the handle back                                         *)

-----------------------------------------------------------------------------
(* WRITEFILE fails without touching the handle                              *)

\* the evaluation of one of the statement's expressions fails
WriteFileExprFails(r) == ~WriteFileOutput(r.before, r.stmt.exprs, 1, << >>).ok

\* C12: a WRITEFILE with an expression that fails to evaluate, or on a file
\* that is not open, or on a file open FOR READ, fails, and every handle
\* has the content and the position it had before the statement.
C12_WriteFileAllOrNothing ==
    \A j \in RanIndex :
        (/\ IsFileStmt(last.ran[j].stmt, "WriteFile")
         /\ \/ WriteFileExprFails(last.ran[j])
            \/ LiteralFile(last.ran[j].stmt) \notin DOMAIN last.ran[j].before.open_files
            \/ last.ran[j].before.open_files[LiteralFile(last.ran[j].stmt)].mode = "READ")
        => (~last.ran[j].ok /\ last.ran[j].after.open_files = last.ran[j].before.open_files)

\* one run in which WRITEFILE met each of the three cases: the file not
\* open, the file open FOR READ, and a WRITE handle with a second
\* expression that fails after a first one was stringified
C12_Witness ==
    /\ \E j \in RanIndex :
           /\ IsFileStmt(last.ran[j].stmt, "WriteFile")
           /\ LiteralFile(last.ran[j].stmt) \notin DOMAIN last.ran[j].before.open_files
    /\ \E j \in RanIndex :
           /\ IsFileStmt(last.ran[j].stmt, "WriteFile")
           /\ LiteralFile(last.ran[j].stmt) \in DOMAIN last.ran[j].before.open_files
           /\ last.ran[j].before.open_files[LiteralFile(last.ran[j].stmt)].mode = "READ"
    /\ \E j \in RanIndex :
           /\ IsFileStmt(last.ran[j].stmt, "WriteFile")
           /\ LiteralFile(last.ran[j].stmt) \in DOMAIN last.ran[j].before.open_files
           /\ last.ran[j].before.open_files[LiteralFile(last.ran[j].stmt)].mode = "WRITE"
           /\ WriteFileExprFails(last.ran[j])
           /\ WriteFileOutput(last.ran[j].before, last.ran[j].stmt.exprs, 1, << >>).output
                  = << "a" >>

-----------------------------------------------------------------------------
(* PUTRECORD and GETRECORD                                                  *)

\* the record the statement is to write: the stringification of the value,
\* cut to RecordSize bytes, then zero bytes up to RecordSize
ExpectedRecord(v) == TruncateResize(value_to_string(v))

\* the statements at j .. j+3 are OPENFILE f FOR RANDOM, which succeeded,
\* PUTRECORD f, rec with rec bound, SEEK f, 0 and GETRECORD f, rec2
IsPutSeekGet(stmts, ran, j) ==
    /\ j + 3 <= Len(stmts) /\ j <= Len(ran)
    /\ IsFileStmt(stmts[j], "OpenFile") /\ stmts[j].mode = "RANDOM" /\ ran[j].ok
    /\ IsFileStmt(stmts[j + 1], "PutRecord")
    /\ stmts[j + 1].variable \in DOMAIN ran[j].after.variables
    /\ IsFileStmt(stmts[j + 2], "Seek") /\ stmts[j + 2].address = Num(0)
    /\ IsFileStmt(stmts[j + 3], "GetRecord")
    /\ \A d \in 1..3 : LiteralFile(stmts[j + d]) = LiteralFile(stmts[j])

\* the bytes a PUTRECORD that started from handle h replaces
Replaced(h) ==
    IF h.position >= Len(h.content) THEN 0
    ELSE Min2(h.position + RecordSize, Len(h.content)) - h.position

\* C13: on a file just opened FOR RANDOM, PUTRECORD f, rec ; SEEK f, 0 ;
\* GETRECORD f, rec2 binds rec2 to the stringification of rec cut to 256
\* bytes and padded with zero bytes to 256; every PUTRECORD writes exactly
\* 256 bytes, the record, at the position and advances the position by 256.
C13_RecordRoundTrip ==
    /\ \A code \in RecordPrograms : \A j \in 1..Len(code.stmts) :
           (/\ last.op = "execute" /\ Len(last.ran) >= j
            /\ \A i \in 1..Len(last.ran) : last.ran[i].stmt = code.stmts[i]
            /\ IsPutSeekGet(code.stmts, last.ran, j))
           => /\ Len(last.ran) >= j + 3
              /\ last.ran[j + 3].ok
              /\ last.ran[j + 3].after.variables[code.stmts[j + 3].variable]
                     = StrV(ExpectedRecord(
                           last.ran[j].after.variables[code.stmts[j + 1].variable]))
    /\ \A j \in RanIndex :
           (IsFileStmt(last.ran[j].stmt, "PutRecord") /\ last.ran[j].ok) =>
               /\ last.ran[j].after.open_files[LiteralFile(last.ran[j].stmt)].position
                     = last.ran[j].before.open_files[LiteralFile(last.ran[j].stmt)].position
                         + RecordSize
               /\ Len(last.ran[j].after.open_files[LiteralFile(last.ran[j].stmt)].content)
                     = Len(last.ran[j].before.open_files[LiteralFile(last.ran[j].stmt)].content)
                         - Replaced(last.ran[j].before.open_files[LiteralFile(last.ran[j].stmt)])
                         + RecordSize
               /\ SubSeq(last.ran[j].after.open_files[LiteralFile(last.ran[j].stmt)].content,
                         last.ran[j].before.open_files[LiteralFile(last.ran[j].stmt)].position + 1,
                         last.ran[j].before.open_files[LiteralFile(last.ran[j].stmt)].position
                             + RecordSize)
                     = ExpectedRecord(last.ran[j].before.variables[last.ran[j].stmt.variable])

-----------------------------------------------------------------------------
(* EOF                                                                      *)

\* f has an open READ or RANDOM handle positioned at the end of its content
AtEnd(st, f) ==
    /\ f \in DOMAIN st.open_files
    /\ st.open_files[f].mode \in { "READ", "RANDOM" }
    /\ st.open_files[f].position >= Len(st.open_files[f].content)

-----------------------------------------------------------------------------
(* INPUT                                                                    *)

\* an INPUT into a declared STRING variable
IsStringInput(r) ==
    /\ r.stmt.s = "Input"
    /\ r.stmt.name \in DOMAIN r.before.variables_type
    /\ r.before.variables_type[r.stmt.name] = TString

\* C15: the scripted input is a queue: INPUT consumes the lines in the order
\* add_input supplied them, the first line added first, each line at most
\* once, and fails when no line is left.
C15_InputFifo ==
    \A j \in RanIndex :
        IsStringInput(last.ran[j]) =>
            IF Len(last.ran[j].before.input_queue) = 0
            THEN ~last.ran[j].ok /\ last.ran[j].after.input_queue = << >>
            ELSE /\ last.ran[j].ok
                 /\ last.ran[j].after.variables[last.ran[j].stmt.name]
                        = StrV(trim(Head(last.ran[j].before.input_queue)))
                 /\ last.ran[j].after.input_queue = Tail(last.ran[j].before.input_queue)

-----------------------------------------------------------------------------
(* FOR                                                                      *)

\* the integer a literal denotes
LitValue(e) == IF e.e = "Number" THEN e.n ELSE -e.expr.n

\* c, c+k, c+2k, ... while (k > 0 and c <= e) or (k < 0 and c >= e), for c
\* that satisfies the condition
RECURSIVE CounterValues(_, _, _)
CounterValues(c, e, k) ==
    << c >> \o
    (IF k > 0
     THEN (IF e >= I32Min + k /\ c <= e - k THEN CounterValues(c + k, e, k) ELSE << >>)
     ELSE (IF e <= I32Max + k /\ c >= e - k THEN CounterValues(c + k, e, k) ELSE << >>))

\* the values of the counter of FOR counter <- s TO e STEP k, in order
Iterations(s, e, k) ==
    IF (k > 0 /\ s <= e) \/ (k < 0 /\ s >= e) THEN CounterValues(s, e, k) ELSE << >>

\* what OUTPUT counter prints over these iterations
RECURSIVE CounterLines(_, _)
CounterLines(values, j) ==
    IF j > Len(values) THEN << >>
    ELSE IntToString(values[j]) \o << "\n" >> \o CounterLines(values, j + 1)

\* C16: FOR counter <- s TO e STEP k fails before any iteration when k = 0;
\* otherwise its body runs exactly once for each c = s, s+k, s+2k, ... with
\* (k > 0 and c <= e) or (k < 0 and c >= e), in that order, with counter
\* bound to c at the start of the iteration whatever the body assigned to
\* it; zero times when s is already past e.
C16_ForIterations ==
    \A j \in RanIndex :
        last.ran[j].stmt.s = "For" =>
            IF LitValue(last.ran[j].stmt.step[1]) = 0
            THEN /\ ~last.ran[j].ok
                 /\ last.ran[j].after.output_buffer = last.ran[j].before.output_buffer
            ELSE /\ last.ran[j].ok
                 /\ last.ran[j].after.output_buffer
                        = last.ran[j].before.output_buffer
                          \o CounterLines(Iterations(LitValue(last.ran[j].stmt.start),
                                                     LitValue(last.ran[j].stmt.end),
                                                     LitValue(last.ran[j].stmt.step[1])), 1)

-----------------------------------------------------------------------------
(* CASE                                                                     *)

\* the value a literal label evaluates to
LabelValue(e) == IF e.e = "Number" THEN IntV(e.n) ELSE StrV(e.s)

\* the branches whose label equals the value of x
EqualBranches(r) ==
    { j \in DOMAIN r.stmt.cases :
          LabelValue(r.stmt.cases[j].value) = r.before.variables["x"] }

\* the first of them in source order
FirstEqual(r) == CHOOSE j \in EqualBranches(r) : \A i \in EqualBranches(r) : j <= i

\* C17: CASE runs the body of the first branch, in source order, whose
\* label equals the value of the CASE expression, and no other branch; when
\* no label is equal it runs OTHERWISE if there is one, else nothing, and
\* succeeds.
C17_CaseFirstMatch ==
    \A j \in RanIndex :
        last.ran[j].stmt.s = "Case" =>
            /\ last.ran[j].ok
            /\ last.ran[j].after.output_buffer
                  = last.ran[j].before.output_buffer \o
                    (IF EqualBranches(last.ran[j]) # {}
                     THEN << BranchLetter[FirstEqual(last.ran[j])], "\n" >>
                     ELSE IF last.ran[j].stmt.otherwise # << >> THEN << "O", "\n" >>
                     ELSE << >>)

\* a CASE with two branches of the same label, equal to the value, and an
\* OTHERWISE ran the first branch only
C17_Witness ==
    \E j \in RanIndex :
        /\ last.ran[j].stmt.s = "Case"
        /\ EqualBranches(last.ran[j]) = { 1, 2 }
        /\ last.ran[j].stmt.otherwise # << >>
        /\ last.ran[j].after.output_buffer
              = last.ran[j].before.output_buffer \o << "A", "\n" >>

-----------------------------------------------------------------------------
(* Pointers hold a copy                                                     *)

\* the variables bound to a pointer
Pointers(st) == { x \in DOMAIN st.variables : st.variables[x].k = "Pointer" }

\* r is an assignment of a number to the plain variable or through the pointer
IsNumberAssign(r, through_pointer) ==
    /\ r.stmt.s = "Assign" /\ r.stmt.is_pointer_deref = through_pointer
    /\ ~r.stmt.has_indices /\ r.stmt.expression.e = "Number"

\* C18: after p <- ^v the pointer holds a copy of the value of v: p^ <- e
\* changes what p^ evaluates to and leaves v as it was, and a later
\* assignment to v does not change what p^ evaluates to.
C18_PointerSnapshot ==
    \A j \in RanIndex :
        \* p <- ^v : p holds the value v has
        /\ (/\ last.ran[j].stmt.s = "Assign" /\ last.ran[j].stmt.expression.e = "PointerRef"
             /\ last.ran[j].ok)
            => last.ran[j].after.variables[last.ran[j].stmt.name].target
                  = last.ran[j].before.variables[last.ran[j].stmt.expression.target.name]
        \* p^ <- e : p^ is e, every other variable is as before
        /\ (/\ IsNumberAssign(last.ran[j], TRUE)
             /\ last.ran[j].stmt.name \in Pointers(last.ran[j].before))
            => /\ last.ran[j].ok
               /\ last.ran[j].stmt.name \in Pointers(last.ran[j].after)
               /\ last.ran[j].after.variables[last.ran[j].stmt.name].target
                     = IntV(last.ran[j].stmt.expression.n)
               /\ \A x \in DOMAIN last.ran[j].before.variables \ { last.ran[j].stmt.name } :
                      last.ran[j].after.variables[x] = last.ran[j].before.variables[x]
        \* v <- e : every pointer holds what it held
        /\ (IsNumberAssign(last.ran[j], FALSE) /\ last.ran[j].ok)
            => \A q \in Pointers(last.ran[j].before) \ { last.ran[j].stmt.name } :
                   last.ran[j].after.variables[q] = last.ran[j].before.variables[q]
        \* OUTPUT p^ prints what p holds
        /\ (last.ran[j].stmt = OutputDeref /\ "p" \in Pointers(last.ran[j].before))
            => /\ last.ran[j].ok
               /\ last.ran[j].after.output_buffer
                     = last.ran[j].before.output_buffer
                       \o value_to_string(last.ran[j].before.variables["p"].target)
                       \o << "\n" >>

\* v <- 1 ; p <- ^v ; p^ <- 2 ; v <- 3 printed 2, 1, 2, 3 for p^, v, p^, v
C18_Witness ==
    /\ Len(last.ran) = 9
    /\ last.ran[4].stmt = AssignDeref("p", Num(2)) /\ last.ran[4].ok
    /\ last.ran[7].stmt = Assign("v", Num(3)) /\ last.ran[7].ok
    /\ last.output = << "2", "\n", "1", "\n", "2", "\n", "3", "\n" >>

-----------------------------------------------------------------------------
(* Functions and procedures are registered once                             *)

\* every entry of table `before` is in table `after`, unchanged
Kept(before, after) ==
    \A name \in DOMAIN before : name \in DOMAIN after /\ after[name] = before[name]

\* C19: declaring a FUNCTION (PROCEDURE) under a name already registered as
\* a function (procedure) fails and leaves the definition in place; no
\* statement, a call with its scope restore included, replaces or removes
\* a registered definition.
C19_WriteOnce ==
    \A j \in RanIndex :
        /\ Kept(last.ran[j].before.functions, last.ran[j].after.functions)
        /\ Kept(last.ran[j].before.procedures, last.ran[j].after.procedures)
        /\ (/\ last.ran[j].stmt.s = "FunctionDeclaration"
             /\ last.ran[j].stmt.function.name \in DOMAIN last.ran[j].before.functions)
            => (~last.ran[j].ok
                  /\ last.ran[j].after.functions = last.ran[j].before.functions)
        /\ (/\ last.ran[j].stmt.s = "ProcedureDeclaration"
             /\ last.ran[j].stmt.procedure.name \in DOMAIN last.ran[j].before.procedures)
            => (~last.ran[j].ok
                  /\ last.ran[j].after.procedures = last.ran[j].before.procedures)

\* one run declared abs and p a second time with another body, and called
\* p, with both still registered with their first bodies
C19_Witness ==
    /\ \E j \in RanIndex :
           /\ last.ran[j].stmt = ProcPOther
           /\ "p" \in DOMAIN last.ran[j].before.procedures
           /\ last.ran[j].before.procedures["p"] = ProcP.procedure
    /\ \E j \in RanIndex :
           /\ last.ran[j].stmt.s = "Call" /\ last.ran[j].ok
           /\ "abs" \in DOMAIN last.ran[j].before.functions
           /\ last.ran[j].after.functions["abs"] = AbsDeclaration.function
           /\ last.ran[j].after.procedures["p"] = ProcP.procedure
    /\ functions["abs"] = AbsDeclaration.function

-----------------------------------------------------------------------------
(* Operator precedence                                                      *)

\* the levels of the claim, loosest first: OR, AND, comparison, arithmetic
Tier(op) ==
    CASE op = "Or" -> 1
      [] op = "And" -> 2
      [] op \in {"Equals", "NotEquals", "LessThan", "GreaterThan",
                 "LessThanOrEqual", "GreaterThanOrEqual"} -> 3
      [] OTHER -> 4

\* op binds looser than other: a lower level, or inside one level a lower
\* precedence
Looser(op, other) ==
    \/ Tier(op) < Tier(other)
    \/ Tier(op) = Tier(other) /\ precedence(op) < precedence(other)

\* the binary operator a token stands for
OpOf(token) == IF token.t = "Plus" THEN "Add"
               ELSE IF token.t = "Minus" THEN "Subtract" ELSE token.t

\* the positions lo..hi of the binary operators: the tokens after an operand
BinaryAt(toks, lo, hi) ==
    { j \in (lo + 1)..hi : toks[j - 1].t = "Identifier" /\ toks[j].t \in BinaryTokens }

\* the last of the loosest operators
SplitAt(toks, at) ==
    CHOOSE j \in at :
        \A k \in at : /\ ~Looser(OpOf(toks[k]), OpOf(toks[j]))
                      /\ (Looser(OpOf(toks[j]), OpOf(toks[k])) \/ k <= j)

\* the grouping the claim prescribes for the tokens lo..hi: split at the
\* last of the loosest binary operators; unary operators apply to operands
RECURSIVE Grouped(_, _, _)
Grouped(toks, lo, hi) ==
    IF BinaryAt(toks, lo, hi) # {}
    THEN Bind(SplitAt(toks, BinaryAt(toks, lo, hi)), LAMBDA j :
         Bin(Grouped(toks, lo, j - 1), OpOf(toks[j]), Grouped(toks, j + 1, hi)))
    ELSE IF lo = hi THEN Var(toks[lo].name)
    ELSE Un(IF toks[lo].t = "Not" THEN "Not" ELSE "Negate", Grouped(toks, lo + 1, hi))

\* NOT a OR b AND c = d
ExampleSource ==
    SourceOf(<< Tok("Not"), TIdentifier("a"), Tok("Or"), TIdentifier("b"), Tok("And"),
                TIdentifier("c"), Tok("Equals"), TIdentifier("d") >>)

\* (NOT a) OR (b AND (c = d))
ExampleTree ==
    Bin(Un("Not", Var("a")), "Or",
        Bin(Var("b"), "And", Bin(Var("c"), "Equals", Var("d"))))

\* C20: the parser groups an expression so that unary operators bind
\* tighter than arithmetic, arithmetic tighter than comparison, comparison
\* tighter than AND and AND tighter than OR, operators of equal precedence
\* grouping to the left; NOT a OR b AND c = d is (NOT a) OR (b AND (c = d)).
C20_Precedence ==
    last.op = "parse_for_execution" =>
        /\ parsed_statements
             = << Output(<< Grouped(last.source, 2, Len(last.source) - 1) >>) >>
        /\ last.source = ExampleSource
             => parsed_statements = << Output(<< ExampleTree >>) >>

\* the example was parsed
C20_Witness ==
    /\ last.op = "parse_for_execution"
    /\ last.source = ExampleSource
    /\ parsed_statements = << Output(<< ExampleTree >>) >>

-----------------------------------------------------------------------------
(* Stepped execution                                                        *)

\* what one engine call does to the stepping state: parse_for_execution
\* starts at the first statement; execute_next_statement runs the statement
\* at the index, once, and moves past it whether or not it failed, and past
\* the end runs nothing; no other call moves the index
SteppedCall ==
    /\ last'.op = "parse_for_execution" =>
           /\ current_statement_index' = 0
           /\ last'.errors = << >> => has_more_statements' = (Len(parsed_statements') > 0)
    /\ last'.op = "execute_next_statement" =>
           IF has_more_statements
           THEN /\ current_statement_index' = current_statement_index + 1
                /\ parsed_statements' = parsed_statements
                /\ Len(last'.ran) = 1
                /\ last'.ran[1].stmt = parsed_statements[current_statement_index + 1]
                /\ last'.ran[1].before = Interp
                /\ Interp' = [last'.ran[1].after EXCEPT !.events = << >>]
           ELSE /\ last'.ran = << >>
                /\ last'.output = << >>
                /\ last'.errors = << >>
                /\ Interp' = Interp
                /\ UNCHANGED << parsed_statements, current_statement_index >>
    /\ last'.op \notin {"parse_for_execution", "execute_next_statement"} =>
           UNCHANGED << parsed_statements, current_statement_index >>

\* C21: after parse_for_execution the k-th execute_next_statement runs the
\* k-th statement, once, also after a failed one; has_more_statements holds
\* while statements are left, and a call past the end runs nothing and
\* returns no output and no errors.
C21_SteppedInOrder ==
    /\ [](current_statement_index <= Len(parsed_statements))
    /\ [][SteppedCall]_vars

\* the third statement ran after the second one had failed
C21_Witness ==
    /\ last.op = "execute_next_statement"
    /\ parsed_statements = << Declare("x", TInteger), Assign("x", Var("zz")),
                              Output(<< Var("x") >>) >>
    /\ current_statement_index = 3
    /\ ~has_more_statements
    /\ Len(last.ran) = 1
    /\ last.ran[1].stmt = Output(<< Var("x") >>)
    /\ last.ran[1].ok

-----------------------------------------------------------------------------
(* Errors leave every enclosing block                                       *)

\* the statements that returned an error, by position in the events
FailedAt(events) == { k \in DOMAIN events : events[k].ev = "StmtEnd" /\ ~events[k].ok }

\* the first of them: the statement the error comes from
FirstFailed(events) == CHOOSE k \in FailedAt(events) : \A k2 \in FailedAt(events) : k <= k2

\* no statement starts once one has failed
NothingAfterFailure(events) ==
    \A k \in FailedAt(events) :
        \A k2 \in DOMAIN events : k2 > k => events[k2].ev # "Stmt"

\* the message is the one of the failed statement, or the one that an
\* argument list puts in front of it
Carries(msg, cause) ==
    msg \in {cause, "Error evaluating function arguments",
             "Error evaluating procedure arguments"}

\* control leaves every block: nothing starts after the failed statement
\* and the top-level statement fails
ControlUnwinds ==
    \A j \in RanIndex :
        FailedAt(last.ran[j].after.events) # {} =>
            /\ NothingAfterFailure(last.ran[j].after.events)
            /\ ~last.ran[j].ok

\* C22: when a statement inside a block fails, no later statement of the
\* block or of an enclosing block runs, no loop iteration starts, and the
\* top-level evaluate_stmt returns that error: nothing catches it.
C22_ErrorsUnwind ==
    /\ ControlUnwinds
    /\ \A j \in RanIndex :
           FailedAt(last.ran[j].after.events) # {} =>
               Carries(last.ran[j].msg,
                       last.ran[j].after.events[FirstFailed(last.ran[j].after.events)].msg)

-----------------------------------------------------------------------------
(* READFILE reads the next line                                             *)

\* the position just past the line that starts after pos: past its "\n",
\* or the end of the content
PastLine(content, pos) ==
    IF \E i \in (pos + 1)..Len(content) : content[i] = "\n"
    THEN CHOOSE i \in (pos + 1)..Len(content) :
             content[i] = "\n" /\ \A k \in (pos + 1)..(i - 1) : content[k] # "\n"
    ELSE Len(content)

\* the line without "\n" and without the "\r" in front of it
WithoutTerminator(line) ==
    IF line # << >> /\ line[Len(line)] = "\n"
    THEN IF Len(line) > 1 /\ line[Len(line) - 1] = "\r"
         THEN SubSeq(line, 1, Len(line) - 2)
         ELSE SubSeq(line, 1, Len(line) - 1)
    ELSE line

\* READFILE "f", v that succeeded on a READ or RANDOM handle with text left
IsLineRead(r) ==
    /\ r.stmt.s = "ReadFile"
    /\ r.ok
    /\ LiteralFile(r.stmt) \in DOMAIN r.before.open_files
    /\ r.before.open_files[LiteralFile(r.stmt)].position
         < Len(r.before.open_files[LiteralFile(r.stmt)].content)

\* C23: READFILE stores the next line without its terminator, "\n" or
\* "\r\n": the stored string has neither "\r" nor "\n", and the position
\* moves just past the terminator.
C23_ReadsNextLine ==
    \A j \in RanIndex :
        IsLineRead(last.ran[j]) =>
            \E h \in { last.ran[j].before.open_files[LiteralFile(last.ran[j].stmt)] } :
                /\ last.ran[j].after.variables[last.ran[j].stmt.name]
                     = StrV(WithoutTerminator(
                                SubSeq(h.content, h.position + 1,
                                       PastLine(h.content, h.position))))
                /\ \A i \in DOMAIN last.ran[j].after.variables[last.ran[j].stmt.name].s :
                       last.ran[j].after.variables[last.ran[j].stmt.name].s[i]
                           \notin {"\r", "\n"}
                /\ last.ran[j].after.open_files[LiteralFile(last.ran[j].stmt)].position
                     = PastLine(h.content, h.position)

-----------------------------------------------------------------------------
(* The lexer's contract                                                     *)

\* the position after the line break at j: "\r\n" is one line break
AfterBreak(source, j) ==
    IF source[j] = "\r" /\ j < Len(source) /\ source[j + 1] = "\n" THEN j + 2 ELSE j + 1

\* the line breaks of source[j..] that are not in a string literal.  In
\* "code" a double quote opens a string literal, // a comment that runs up
\* to the line break, and a single quote a character literal 'c'
RECURSIVE LineBreaks(_, _, _)
LineBreaks(source, j, mode) ==
    IF j > Len(source) THEN 0
    ELSE IF mode = "string"
    THEN IF source[j] = "\\"
         THEN (IF j < Len(source) THEN LineBreaks(source, AfterBreak(source, j + 1), "string")
               ELSE 0)
         ELSE IF source[j] = "\"" THEN LineBreaks(source, j + 1, "code")
         ELSE LineBreaks(source, AfterBreak(source, j), "string")
    ELSE IF mode = "comment"
    THEN IF source[j] \in {"\n", "\r"} THEN LineBreaks(source, j, "code")
         ELSE LineBreaks(source, j + 1, "comment")
    ELSE IF mode = "char"
    THEN (IF source[j] \in {"\n", "\r"} THEN 1 ELSE 0)
         + (IF AfterBreak(source, j) <= Len(source) /\ source[AfterBreak(source, j)] = "'"
            THEN LineBreaks(source, AfterBreak(source, j) + 1, "code")
            ELSE LineBreaks(source, AfterBreak(source, j), "code"))
    ELSE IF source[j] \in {"\n", "\r"} THEN 1 + LineBreaks(source, AfterBreak(source, j), "code")
    ELSE IF source[j] = "\"" THEN LineBreaks(source, j + 1, "string")
    ELSE IF source[j] = "'" THEN LineBreaks(source, j + 1, "char")
    ELSE IF source[j] = "/" /\ j < Len(source) /\ source[j + 1] = "/"
    THEN LineBreaks(source, j + 2, "comment")
    ELSE LineBreaks(source, j + 1, "code")

\* the positions of the tokens of the kind
TokensOf(tokens, kind) == { k \in DOMAIN tokens : tokens[k].token = Tok(kind) }

\* C24: the lexer reports a positioned error, or returns tokens with one
\* EOF, the last; every line break outside a string literal gives one
\* Newline token and moves the line counter by one.
C24_LexerContract ==
    last.op = "tokenize_with_pos" =>
        /\ ~last.lexed.ok => last.lexed.panic = UnexpectedCharacter
        /\ last.lexed.ok =>
               /\ TokensOf(last.lexed.tokens, "EOF") = { Len(last.lexed.tokens) }
               /\ Cardinality(TokensOf(last.lexed.tokens, "Newline"))
                    = LineBreaks(last.source, 1, "code")
               /\ \A k \in TokensOf(last.lexed.tokens, "Newline") :
                      last.lexed.tokens[k + 1].line = last.lexed.tokens[k].line + 1

\* the reserved identifiers of the language
ReservedWords ==
    { << "D", "E", "C", "L", "A", "R", "E" >>,
      << "C", "O", "N", "S", "T", "A", "N", "T" >>,
      << "F", "U", "N", "C", "T", "I", "O", "N" >>,
      << "P", "R", "O", "C", "E", "D", "U", "R", "E" >>,
      << "E", "N", "D", "F", "U", "N", "C", "T", "I", "O", "N" >>,
      << "E", "N", "D", "P", "R", "O", "C", "E", "D", "U", "R", "E" >>,
      << "I", "F" >>, << "T", "H", "E", "N" >>, << "E", "L", "S", "E" >>,
      << "E", "N", "D", "I", "F" >>, << "W", "H", "I", "L", "E" >>,
      << "D", "O" >>, << "E", "N", "D", "W", "H", "I", "L", "E" >>,
      << "F", "O", "R" >>, << "T", "O" >>, << "S", "T", "E", "P" >>,
      << "N", "E", "X", "T" >>, << "R", "E", "P", "E", "A", "T" >>,
      << "U", "N", "T", "I", "L" >>, << "R", "E", "T", "U", "R", "N" >>,
      << "C", "A", "L", "L" >>, << "I", "N", "P", "U", "T" >>,
      << "O", "U", "T", "P", "U", "T" >>,
      << "O", "P", "E", "N", "F", "I", "L", "E" >>,
      << "C", "L", "O", "S", "E", "F", "I", "L", "E" >>,
      << "R", "E", "A", "D", "F", "I", "L", "E" >>,
      << "W", "R", "I", "T", "E", "F", "I", "L", "E" >>,
      << "S", "E", "E", "K" >>,
      << "G", "E", "T", "R", "E", "C", "O", "R", "D" >>,
      << "P", "U", "T", "R", "E", "C", "O", "R", "D" >>,
      << "I", "N", "T", "E", "G", "E", "R" >>, << "R", "E", "A", "L" >>,
      << "S", "T", "R", "I", "N", "G" >>, << "C", "H", "A", "R" >>,
      << "B", "O", "O", "L", "E", "A", "N" >>, << "D", "A", "T", "E" >>,
      << "A", "R", "R", "A", "Y" >>, << "O", "F" >>, << "A", "N", "D" >>,
      << "O", "R" >>, << "N", "O", "T" >>, << "T", "R", "U", "E" >>,
      << "F", "A", "L", "S", "E" >>, << "T", "Y", "P", "E" >>,
      << "E", "N", "D", "T", "Y", "P", "E" >>, << "C", "A", "S", "E" >>,
      << "E", "N", "D", "C", "A", "S", "E" >>,
      << "O", "T", "H", "E", "R", "W", "I", "S", "E" >>,
      << "R", "E", "T", "U", "R", "N", "S" >>, << "S", "E", "T" >>,
      << "D", "I", "V" >>, << "M", "O", "D" >>,
      << "L", "E", "N", "G", "T", "H" >>, << "U", "C", "A", "S", "E" >>,
      << "L", "C", "A", "S", "E" >>,
      << "S", "U", "B", "S", "T", "R", "I", "N", "G" >>, << "M", "I", "D" >>,
      << "R", "I", "G", "H", "T" >>, << "R", "A", "N", "D", "O", "M" >>,
      << "R", "A", "N", "D" >>, << "R", "O", "U", "N", "D" >>,
      << "I", "N", "T" >>, << "E", "O", "F" >>, << "R", "E", "A", "D" >>,
      << "W", "R", "I", "T", "E" >> }

\* a word with its lower-case letters in upper case
UpperCased(word) ==
    [c \in DOMAIN word |->
        IF word[c] \in LowerLetters
        THEN UpperAlphabet[CHOOSE n \in 1..26 : LowerAlphabet[n] = word[c]]
        ELSE word[c]]

\* a word of letters, digits and underscores that starts with a letter
IsWord(source) ==
    /\ source # << >>
    /\ is_ascii_alphabetic(source[1])
    /\ \A c \in DOMAIN source : is_ascii_alphanumeric(source[c]) \/ source[c] = "_"

\* the token of a word whose upper-cased form decides its class
ClassOf(word) ==
    IF UpperCased(word) = << "A", "N", "D" >> THEN Tok("And")
    ELSE IF UpperCased(word) = << "O", "R" >> THEN Tok("Or")
    ELSE IF UpperCased(word) = << "N", "O", "T" >> THEN Tok("Not")
    ELSE IF UpperCased(word) \in ReservedWords THEN [t |-> "Keyword", text |-> word]
    ELSE [t |-> "Identifier", text |-> word]

\* C25: a word is lexed as a keyword (AND, OR, NOT as their operators) when
\* its upper-cased form is a reserved word, and as an Identifier otherwise.
C25_KeywordsReserved ==
    (last.op = "tokenize_with_pos" /\ IsWord(last.source)) =>
        /\ last.lexed.ok
        /\ Len(last.lexed.tokens) = 2
        /\ last.lexed.tokens[1].token = ClassOf(last.source)

-----------------------------------------------------------------------------
(* The service's contract                                                   *)

\* the statement lists directly inside a statement
BodiesOf(stmt) ==
    CASE stmt.s = "If" -> { stmt.then_stmt, stmt.else_stmt }
      [] stmt.s \in {"While", "For", "RepeatUntil"} -> { stmt.body }
      [] stmt.s = "Case" ->
            { stmt.cases[j].body : j \in DOMAIN stmt.cases }
                \cup { stmt.otherwise[j] : j \in DOMAIN stmt.otherwise }
      [] stmt.s = "FunctionDeclaration" -> { stmt.function.body }
      [] stmt.s = "ProcedureDeclaration" -> { stmt.procedure.body }
      [] OTHER -> {}

\* the name a declaration declares
DeclaredName(stmt) ==
    CASE stmt.s = "FunctionDeclaration" -> stmt.function.name
      [] stmt.s = "ProcedureDeclaration" -> stmt.procedure.name
      [] OTHER -> stmt.name

\* the declarations of the statements, at any depth
RECURSIVE DeclaredIn(_)
DeclaredIn(statements) ==
    UNION { (IF statements[j].s \in DeclarationKinds
             THEN { [kind |-> statements[j].s, name |-> DeclaredName(statements[j])] }
             ELSE {})
            \cup UNION { DeclaredIn(body) : body \in BodiesOf(statements[j]) } :
            j \in DOMAIN statements }

\* the declarations a symbol table reports
SymbolsOf(table) ==
    { [kind |-> "Declare", name |-> table.variables[j].name] : j \in DOMAIN table.variables }
    \cup { [kind |-> "Constant", name |-> table.constants[j].name] :
             j \in DOMAIN table.constants }
    \cup { [kind |-> "TypeDeclaration", name |-> table.types[j].name] :
             j \in DOMAIN table.types }
    \cup { [kind |-> "FunctionDeclaration", name |-> table.functions[j].name] :
             j \in DOMAIN table.functions }
    \cup { [kind |-> "ProcedureDeclaration", name |-> table.procedures[j].name] :
             j \in DOMAIN table.procedures }

\* the items of the kind with the label
ItemsOf(items, kind, label) ==
    { k \in DOMAIN items : items[k].kind = kind /\ items[k].label = label }

\* C26: with an empty prefix the completions hold every keyword of the list
\* and one function item per built-in function of the evaluator, whose
\* built-in names are those of the service's table.
C26_BuiltinsOffered ==
    (/\ last.op = "get_completions"
     /\ analyze_context(last.source.code, last.source.line, last.source.column).prefix = << >>)
    => /\ \A j \in DOMAIN KEYWORDS : ItemsOf(last.result, "Keyword", KEYWORDS[j]) # {}
       /\ \A name \in BuiltinArms : Cardinality(ItemsOf(last.result, "Function", name)) = 1
       /\ { BUILTIN_FUNCTIONS[j].name : j \in DOMAIN BUILTIN_FUNCTIONS } = BuiltinArms

\* C27: symbol extraction reports every declaration of the program, at top
\* level and inside the body of any block, function or procedure.
C27_NestedDeclarationsFound ==
    last.op = "extract_symbols" => DeclaredIn(last.source.statements) \subseteq SymbolsOf(last.result)

-----------------------------------------------------------------------------
(* The handle table                                                         *)

\* the events of the statements of a call, in order
RECURSIVE EventsOf(_)
EventsOf(ran) == IF ran = << >> THEN << >> ELSE Head(ran).after.events \o EventsOf(Tail(ran))

\* the names open after the events, from the names open before: a
\* successful OPENFILE adds its name and a successful CLOSEFILE removes it
RECURSIVE OpenAfter(_, _)
OpenAfter(names, events) ==
    IF events = << >> THEN names
    ELSE IF Head(events).ev = "StmtEnd" /\ Head(events).ok /\ Head(events).stmt.s = "OpenFile"
    THEN OpenAfter(names \cup { Head(events).stmt.filename.s }, Tail(events))
    ELSE IF Head(events).ev = "StmtEnd" /\ Head(events).ok /\ Head(events).stmt.s = "CloseFile"
    THEN OpenAfter(names \ { Head(events).stmt.filename.s }, Tail(events))
    ELSE OpenAfter(names, Tail(events))

\* what one call of the engine does to the handle table
HandlesFollow ==
    /\ DOMAIN open_files' = OpenAfter(DOMAIN open_files, EventsOf(last'.ran))
    /\ \A n \in DOMAIN EventsOf(last'.ran) :
           EventsOf(last'.ran)[n].ev = "StmtEnd" =>
               EventsOf(last'.ran)[n].files
                   = OpenAfter(DOMAIN open_files, SubSeq(EventsOf(last'.ran), 1, n))

\* C28: after every statement, at top level or nested, failed or not, the
\* keys of open_files are the names with a successful OPENFILE and no
\* successful CLOSEFILE since.
C28_HandlesOpenUntilClosed == [][HandlesFollow]_vars

\* a procedure call opened "f", which stays open, and another statement of
\* the run failed
C28_Witness ==
    /\ last.op = "execute"
    /\ \E j \in DOMAIN last.ran :
           /\ last.ran[j].stmt.s = "Call"
           /\ last.ran[j].ok
           /\ << "f" >> \in DOMAIN last.ran[j].after.open_files
           /\ << "f" >> \notin DOMAIN last.ran[j].before.open_files
    /\ \E j \in DOMAIN last.ran : ~last.ran[j].ok
    /\ << "f" >> \in DOMAIN open_files

\* C29: between statements every constant is a variable, also after a call
\* or a FOR loop in which a CONSTANT statement ran.
C29_ConstantsAreVariables == constants \subseteq DOMAIN variables

-----------------------------------------------------------------------------
(* Array layout                                                             *)

\* n is the product of the dimensions
RECURSIVE IsProduct(_, _)
IsProduct(dimensions, n) ==
    IF dimensions = << >> THEN n = 1
    ELSE IF Head(dimensions) = 0 THEN n = 0
    ELSE n % Head(dimensions) = 0 /\ IsProduct(Tail(dimensions), n \div Head(dimensions))

\* the array's data has one element per index tuple of the declared ranges
Layout(st, name) ==
    /\ IsProduct(st.variables[name].dimensions, Len(st.variables[name].data))
    /\ Len(st.variables[name].dimensions) = Len(st.variables[name].start_indices)
    /\ Len(st.variables[name].dimensions) = Len(st.variables_type[name].dimensions)
    /\ \A d \in DOMAIN st.variables[name].dimensions :
           st.variables[name].dimensions[d]
               = DeclaredHi(st, st.variables_type[name], d)
                     - DeclaredLo(st, st.variables_type[name], d) + 1

ArraysOf(st) == { name \in DOMAIN st.variables : st.variables[name].k = "Array" }

\* C30: every array of the environment has len(data) = product of its
\* dimensions = product of (hi - lo + 1) and as many start indices as
\* dimensions, and an element assignment leaves the three lengths alone.
C30_ArrayLayout ==
    /\ \A name \in ArraysOf(Interp) : Layout(Interp, name)
    /\ \A j \in RanIndex :
           IsIndexedAssign(last.ran[j]) =>
               /\ ArraysOf(last.ran[j].after) = ArraysOf(last.ran[j].before)
               /\ \A name \in ArraysOf(last.ran[j].before) :
                      /\ Len(last.ran[j].after.variables[name].data)
                            = Len(last.ran[j].before.variables[name].data)
                      /\ last.ran[j].after.variables[name].dimensions
                            = last.ran[j].before.variables[name].dimensions
                      /\ last.ran[j].after.variables[name].start_indices
                            = last.ran[j].before.variables[name].start_indices

\* C31: the diagnostic stacks are balanced: after every top-level statement,
\* whether it succeeded or failed, call_stack and context_stack have the
\* depth they had before it (every frame pushed by a CALL, a user function
\* call or an IF/WHILE/FOR/REPEAT block has been popped again)
C31_StacksBalanced ==
    \A j \in 1..Len(last.ran) :
        /\ Len(last.ran[j].after.call_stack) = Len(last.ran[j].before.call_stack)
        /\ Len(last.ran[j].after.context_stack)
               = Len(last.ran[j].before.context_stack)


\* the interpreters agree in every field
SameInterpreter(a, b) ==
    /\ a.variables = b.variables
    /\ a.variables_type = b.variables_type
    /\ a.functions = b.functions
    /\ a.procedures = b.procedures
    /\ a.constants = b.constants
    /\ a.open_files = b.open_files
    /\ a.virtual_files = b.virtual_files
    /\ a.output_buffer = b.output_buffer
    /\ a.input_queue = b.input_queue
    /\ a.call_stack = b.call_stack
    /\ a.context_stack = b.context_stack

\* C32: from the same engine state and queued inputs, parse_for_execution
\* and then execute_next_statement until has_more_statements is false hands
\* the host, piece by piece, exactly the output and the errors of one
\* execute of the same code, and leaves the same interpreter
C32_SteppedEqualsWhole ==
    (last.op = "stepped" /\ ~has_more_statements) =>
        /\ ~last.whole.aborted
        /\ last.output = last.whole.output
        /\ last.errors = last.whole.errors
        /\ SameInterpreter(Interp, last.whole.st)

\* a stepped run on a used engine with output from several statements around
\* a statement that failed after it had written
C32_Witness ==
    /\ last.op = "stepped"
    /\ last.calls = 2
    /\ ~has_more_statements
    /\ last.code = Parsed(<< Output(<< Str(<< "a" >>) >>),
                             Output(<< Num(1), Var("zz") >>),
                             Output(<< >>), Output(<< Str(<< "b" >>) >>) >>)
    /\ last.output = << "a", "\n", "1", "\n", "b", "\n" >>
    /\ Len(last.errors) = 1
    /\ functions # EmptyMap


\* C33: a program that ran without errors on a fresh engine runs without
\* errors again on the same engine, the same inputs and virtual files
\* supplied again, and returns the same output
C33_Repeatable ==
    (last.op = "execute_again" /\ last.first.errors = << >>) =>
        /\ last.errors = << >>
        /\ last.output = last.first.output


\* the interpreter holds a handle FOR READ on the file
ReadHandle(st, f) == f \in DOMAIN st.open_files /\ st.open_files[f].mode = "READ"

\* C34: a handle opened FOR READ never changes the virtual filesystem: no
\* OPENFILE, READFILE or CLOSEFILE on a file held FOR READ changes what
\* get_virtual_file returns, so what the host stored with set_virtual_file
\* while the file was open is still there after CLOSEFILE
C34_ReadNeverWrites ==
    \A j \in RanIndex :
        \A kind \in {"OpenFile", "ReadFile", "CloseFile"} :
            (/\ IsFileStmt(last.ran[j].stmt, kind)
             /\ \/ ReadHandle(last.ran[j].before, LiteralFile(last.ran[j].stmt))
                \/ ReadHandle(last.ran[j].after, LiteralFile(last.ran[j].stmt)))
            => last.ran[j].after.virtual_files = last.ran[j].before.virtual_files


\* C35: a READFILE f, v that fails because v is not declared or is not a
\* STRING consumes nothing: the handle of f, its read position included, is
\* as it was before the statement
C35_FailedReadConsumesNothing ==
    \A j \in RanIndex :
        (/\ IsFileStmt(last.ran[j].stmt, "ReadFile")
         /\ ~last.ran[j].ok
         /\ last.ran[j].msg \in { "Variable not found",
                                  "READFILE variable must be STRING type" })
        => last.ran[j].after.open_files = last.ran[j].before.open_files


\* C36: once a name is constant, every top-level statement either fails or
\* leaves the value bound to the name as it was: INPUT, READFILE, GETRECORD,
\* a second DECLARE, a FOR loop with the name as counter and an assignment
\* through the name as pointer included
C36_ConstantsKeepValue ==
    \A j \in RanIndex :
        \A x \in last.ran[j].before.constants \cap DOMAIN last.ran[j].before.variables :
            last.ran[j].ok =>
                /\ x \in DOMAIN last.ran[j].after.variables
                /\ last.ran[j].after.variables[x] = last.ran[j].before.variables[x]


\* the lines a statement added to the output: one per iteration of a loop
\* whose body is one OUTPUT
LinesAdded(r) ==
    Cardinality({ i \in DOMAIN r.after.output_buffer :
                      /\ i > Len(r.before.output_buffer)
                      /\ r.after.output_buffer[i] = "\n" })

\* C37: a FOR loop from s to e with step k # 0 whose body ends without error
\* ends without error after at most floor(|e - s| / |k|) + 1 iterations, also
\* when the counter is advanced past the end of the 32-bit range
C37_ForTerminates ==
    \A j \in RanIndex :
        (last.ran[j].stmt.s = "For" /\ LitValue(last.ran[j].stmt.step[1]) # 0) =>
            /\ last.ran[j].ok
            /\ LinesAdded(last.ran[j])
                   <= (Abs(LitValue(last.ran[j].stmt.end)
                            - LitValue(last.ran[j].stmt.start))
                          \div Abs(LitValue(last.ran[j].stmt.step[1]))) + 1

\* C38: parse_program returns on every token sequence that ends in EOF,
\* with a statement list or with an error: no iteration of the statement
\* loop or of a block loop leaves the parser where it found it, also when
\* the input ends in the middle of a block
C38_ParsingTerminates ==
    last.op = "parse_for_execution" =>
        /\ last.returns
        /\ last.errors \in { << >>, << "parse error" >> }
        /\ (last.errors # << >> => parsed_statements = << >>)

\* the input ends inside the THEN part of an IF: the parser returns an error
C38_Witness ==
    /\ last.op = "parse_for_execution"
    /\ last.source = << TKeyword("IF"), TIdentifier("x"), TKeyword("THEN"), NL,
                        TKeyword("BREAK"), NL, Tok("EOF") >>
    /\ last.returns
    /\ last.errors = << "parse error" >>

\* a handle whose position lies within its content
WithinContent(h) == 0 <= h.position /\ h.position <= Len(h.content)

\* C39: after every statement of every sequence of OPENFILE, READFILE,
\* WRITEFILE, SEEK, GETRECORD and PUTRECORD statements, each open handle has
\* 0 <= position <= length of its content
C39_PositionWithinContent ==
    /\ \A f \in DOMAIN open_files : WithinContent(open_files[f])
    /\ \A j \in RanIndex :
           \A f \in DOMAIN last.ran[j].after.open_files :
               WithinContent(last.ran[j].after.open_files[f])

\* a GETRECORD with fewer than 256 bytes left, in a content longer than one
\* record, took them and stopped at the end
C39_Witness ==
    /\ last.op = "execute" /\ Len(last.ran) = 1
    /\ last.ran[1].stmt = GetRecord(FileF, "s") /\ last.ran[1].ok
    /\ << "f" >> \in DOMAIN open_files
    /\ Len(open_files[<< "f" >>].content) > RecordSize
    /\ last.ran[1].before.open_files[<< "f" >>].position + RecordSize
           > Len(open_files[<< "f" >>].content)
    /\ open_files[<< "f" >>].position = Len(open_files[<< "f" >>].content)

====
